---- MODULE Spec2Model ----
(***************************************************************************)
(* A model of the demo-agents repository:                                  *)
(*                                                                         *)
(*  - the daily agent metrics export                                       *)
(*    (src/daily_agent_metrics/export_agent_metrics.py), specification     *)
(*    Spec: one run of main() from the constructed exporter to the exit    *)
(*    code;                                                                *)
(*  - the equipment quote tool generate_john_deere_quote in its three      *)
(*    versions (john_deere_demo/demo_agent, john_deere_demo/src/demo_agent *)
(*    and python/wip/demo_agent), specification QuoteSpec: a sequence of   *)
(*    tool calls in one process;                                           *)
(*  - the RAG module (rag_tool.py): the module-level instance cache under  *)
(*    calls from one or two threads and scripts/recreate_index.py,         *)
(*    specification RagSpec; the life of one RAGSystem instance,           *)
(*    specification RagSystemSpec;                                         *)
(*  - JohnDeereAgentRunner.process_query (john_deere/agent.py),            *)
(*    specification RunnerSpec;                                            *)
(*  - the script runs of one Streamlit chat session (app.py),              *)
(*    specification AppSpec.                                               *)
(*                                                                         *)
(* Number representation.  Call durations are Python floats rounded to 2   *)
(* decimals: they are integers here, in hundredths of a second (cs).       *)
(* Prices are exact multiples of a thousandth of a dollar (the catalog     *)
(* prices are whole dollars, the option fraction is 0.1 and the multiplier *)
(* is 1.08): they are integers in thousandths of a dollar (milli).  The    *)
(* monthly payment is an exact rational whose numerator and denominator    *)
(* exceed 32 bits: it is a pair of natural numbers written as digit        *)
(* sequences (base 10000, least significant digit first).  The binary      *)
(* rounding of IEEE doubles (120.0 * 1.08 = 129.60000000000002) is below   *)
(* the resolution of the model.                                            *)
(***************************************************************************)
EXTENDS Integers, Sequences, FiniteSets, TLC

VARIABLES
    \* ---- metrics export (export_agent_metrics.py) ----
    pc,                 \* position of main() / export_metrics()
    clickhouse_enabled, \* self.clickhouse_enabled
    s3_enabled,         \* self.s3_enabled
    date_str,           \* target_date.strftime('%Y-%m-%d')
    output_dir,         \* OUTPUT_DIR (NoValue when unset)
    num_agents,         \* local of get_agent_metrics
    num_calls,          \* local of the mock loop: the value of this iteration
    call_durations,     \* local of the mock loop: the list of this iteration
    metrics,            \* the list of metric dicts
    csv_file,           \* the rows written to the CSV file (NoValue: no file)
    csv_path,           \* where the CSV file is (NoValue: nowhere)
    result,             \* the dict export_metrics returns
    exit_code,          \* sys.exit's argument (NoValue while running)
    rng,                \* the state of the module-level generator of `random`
    \* ---- quote tool (john_deere/tools.py) ----
    quote_pc,           \* "idle", or "returned": the last call's frame is in view
    version,            \* which of the three versions of the tool the process runs
    annual_rate,        \* the annual interest rate of constants.py, per mille
    name_hash,          \* hash(customer_name) in this process
    quote_call,         \* the arguments of the last tool call (NoValue: none)
    quote_locals,       \* the locals of that call when it returned
    quote_out,          \* the text that call returned (NoValue: none)
    \* ---- RAG module (rag_tool.py) and scripts/recreate_index.py ----
    _rag_cache,         \* the module-level dict: cache key -> instance (heap index)
    rag_heap,           \* the RAGSystem objects constructed so far, in order
    rag_threads,        \* per thread: the frame of its call into the module
    rag_invalidations,  \* how many recreate_index / clear_rag_cache calls began
    num_threads,        \* how many threads of the process call into the module
    script_out,         \* what scripts/recreate_index.py printed, its exit status
    \* ---- JohnDeereAgentRunner.process_query (john_deere/agent.py) ----
    runner_pc,          \* position within process_query
    conversation_messages, \* the argument of process_query
    graph_result,       \* what self.graph.invoke did: raised, or result["messages"]
    response,           \* what process_query returned (NoValue: nothing yet)
    \* ---- Streamlit app (app.py) ----
    app_pc,             \* position of the script run of the session
    session_state       \* st.session_state of the chat session

metricsVars == <<pc, clickhouse_enabled, s3_enabled, date_str, output_dir,
                 num_agents, num_calls, call_durations, metrics, csv_file,
                 csv_path, result, exit_code, rng>>
quoteVars == <<quote_pc, version, annual_rate, name_hash, quote_call, quote_locals, quote_out>>
ragVars == <<_rag_cache, rag_heap, rag_threads, rag_invalidations, num_threads, script_out>>
runnerVars == <<runner_pc, conversation_messages, graph_result, response>>
appVars == <<app_pc, session_state>>
agentVars == <<ragVars, runnerVars, appVars>>
vars == <<pc, clickhouse_enabled, s3_enabled, date_str, output_dir,
          num_agents, num_calls, call_durations, metrics, csv_file,
          csv_path, result, exit_code, rng,
          quote_pc, version, annual_rate, name_hash, quote_call, quote_locals, quote_out,
          _rag_cache, rag_heap, rag_threads, rag_invalidations, num_threads, script_out,
          runner_pc, conversation_messages, graph_result, response,
          app_pc, session_state>>

\* Python's None, and a key a dict does not hold.
NoValue == "None"

(***************************************************************************)
(* Bounds of the model.                                                    *)
(***************************************************************************)
\* Agents of one mock run (the code draws random.randint(5, 10)).
MaxAgents == 2
\* Every list of call durations up to this length is generated (the code
\* draws random.randint(10, 100) calls); LongCalls adds sampled long lists.
MaxCalls == 3
\* Rows of a ClickHouse result set.
MaxChRows == 2
\* Length of the optional_features string of a quote call.
MaxFeatLen == 3
\* Largest financing term of a quote call (the smallest is -1).
MaxTerm == 2

Min(a, b) == IF a < b THEN a ELSE b
Max(a, b) == IF a > b THEN a ELSE b

RECURSIVE SumSeq(_)
SumSeq(s) == IF s = <<>> THEN 0 ELSE Head(s) + SumSeq(Tail(s))

(***************************************************************************)
(* Metrics export: the arithmetic of get_agent_metrics.                    *)
(***************************************************************************)

\* sorted(call_durations): ascending insertion sort.
RECURSIVE InsertSorted(_, _)
InsertSorted(x, s) ==
    IF s = <<>> THEN <<x>>
    ELSE IF x <= Head(s) THEN <<x>> \o s
    ELSE <<Head(s)>> \o InsertSorted(x, Tail(s))

RECURSIVE sorted(_)
sorted(s) == IF s = <<>> THEN <<>> ELSE InsertSorted(Head(s), sorted(Tail(s)))

\* The index rounded up instead of truncated: ceil(0.9 * n).
P90Index_Ceiling(n) == (n * 9 + 9) \div 10

\* The 1-based rank 0.9 * n used as a 0-based index minus one.
P90Index_RankMinusOne(n) == Max((n * 9) \div 10 - 1, 0)

\* int(len(sorted_durations) * 0.9).  The double product n * 0.9 truncates to
\* floor(9n/10) for every n the program can hold (checked for n <= 100000).
P90Index(n) == (n * 9) \div 10

\* sorted_durations[p90_index] if p90_index < len(sorted_durations)
\* else sorted_durations[-1]   (0-based in the code, 1-based here).
P90Length(sorted_durations) ==
    LET p90_index == P90Index(Len(sorted_durations))
    IN  IF p90_index < Len(sorted_durations)
        THEN sorted_durations[p90_index + 1]
        ELSE sorted_durations[Len(sorted_durations)]

\* The else branch of line 266 is the one taken.
ClampTaken(sorted_durations) ==
    ~(P90Index(Len(sorted_durations)) < Len(sorted_durations))

\* round(total / n, 2) of a rational given in hundredths: to the nearest
\* hundredth, an exact tie to the even one.
RoundDiv(total, n) ==
    LET q == total \div n
        r == total % n
    IN  IF 2 * r < n THEN q
        ELSE IF 2 * r > n THEN q + 1
        ELSE IF q % 2 = 0 THEN q ELSE q + 1

\* round(statistics.mean(call_durations), 2); mean raises StatisticsError on
\* an empty list.
MeanRaises(durations) == durations = <<>>
\* An average over one call more than there are.
AvgLength_CountPlusOne(durations) == RoundDiv(SumSeq(durations), Len(durations) + 1)
AvgLength(durations) == RoundDiv(SumSeq(durations), Len(durations))

\* f"agent_{i:03d}"
AgentId(i) == <<"agent_", i>>

\* The dict appended for one agent (lines 260-273).  A dict has no 'date' key
\* until generate_csv sets it.
MetricRow(agent_id, n_calls, durations) ==
    [agent_id |-> agent_id,
     avg_call_length_sec |-> AvgLength(durations),
     p90_call_length_sec |-> P90Length(sorted(durations)),
     total_calls |-> n_calls,
     date |-> NoValue]

\* _generate_mock_call_data: max(30, min(1800, gauss)) rounded to 2 decimals,
\* in hundredths of a second.  The model draws from the two clamp values.
MIN_DURATION == 3000
MAX_DURATION == 180000
DurValues == {MIN_DURATION, MAX_DURATION}

\* Sampled long lists: n values 30 s + 10 s * k in ascending, descending and
\* interleaved order.
LongCalls == {10, 11, 20}
RampValue(k) == MIN_DURATION + 1000 * k
LongLists(n) ==
    { [i \in 1..n |-> RampValue(i)],
      [i \in 1..n |-> RampValue(n + 1 - i)],
      [i \in 1..n |-> RampValue(IF 2 * i <= n THEN 2 * i ELSE 2 * (i - n \div 2) - 1)] }

\* A generator whose loop runs once too often.
MockCallData_OneMore(n) ==
    IF n \in LongCalls THEN LongLists(n + 1) ELSE [1..(n + 1) -> DurValues]

\* The lists _generate_mock_call_data(agent_id, n) can return: one append per
\* iteration of range(n).
MockCallData(n) ==
    IF n \in LongCalls THEN LongLists(n) ELSE [1..n -> DurValues]

NumCallsChoices == (1..MaxCalls) \cup LongCalls

(***************************************************************************)
(* Metrics export: the run of main().                                      *)
(***************************************************************************)

\* TARGET_DATE (default: yesterday) as '%Y-%m-%d', and OUTPUT_DIR.
Dates == {"2024-03-01", "2024-03-02"}
OutputDirs == {NoValue, "out"}

\* filename = f"agent_metrics_{date_str}.csv"
CsvFilename(d) == <<"agent_metrics_", d, ".csv">>
\* os.path.join(output_dir, csv_filename)
PathJoin(dir, name) == <<dir, "/">> \o name
\* s3_key = f"agent_metrics/{date_str}/{filename}"
S3Key(d, filename) == <<"agent_metrics/", d, "/">> \o filename

\* fieldnames of the csv.DictWriter (line 297).
CsvFieldnames ==
    <<"agent_id", "avg_call_length_sec", "p90_call_length_sec", "total_calls", "date">>

\* writer.writerow(metric): the values of the dict in fieldnames order.
CsvRow(metric) ==
    <<metric.agent_id, metric.avg_call_length_sec, metric.p90_call_length_sec,
      metric.total_calls, metric.date>>

\* metric['date'] = date_str
WithDate(metric, d) == [metric EXCEPT !.date = d]

\* A writer that writes nothing at all for an empty list.
CsvContent_SkipEmpty(ms, d) ==
    IF ms = <<>> THEN <<>>
    ELSE <<CsvFieldnames>> \o [i \in 1..Len(ms) |-> CsvRow(WithDate(ms[i], d))]

\* generate_csv's file: writeheader(), then one row per metric.
CsvContent(ms, d) ==
    <<CsvFieldnames>> \o [i \in 1..Len(ms) |-> CsvRow(WithDate(ms[i], d))]

\* A row of result.result_rows: agent_id, AVG and quantile(0.9) in thousandths
\* of a second, COUNT(*).  Rows come ORDER BY agent_id, one per agent.
ChValues ==
    [avg_length : {30004, 30006}, p90_length : {45015}, total_calls : {1, 12}]
ChResults ==
    UNION { [1..k -> ChValues] : k \in 0..MaxChRows }

\* The dict built from one result row (lines 232-238): round(float(x), 2).
ChMetric(i, row) ==
    [agent_id |-> <<"ch_agent_", i>>,
     avg_call_length_sec |-> RoundDiv(row.avg_length, 10),
     p90_call_length_sec |-> RoundDiv(row.p90_length, 10),
     total_calls |-> row.total_calls,
     date |-> NoValue]

\* The generator of the random module is one per process: seeded from the
\* operating system at import, reseeded by random.seed, advanced by each draw.
\* A state is the seed and the number of draws made since.
OsSeeded == [seed |-> <<"os">>, draws |-> 0]
\* random.seed(hash(agent_id) % 10000) followed by n draws of random.gauss.
SeededBy(agent_id, n) == [seed |-> agent_id, draws |-> n]

MetricsInit ==
    /\ rng = OsSeeded
    /\ pc = "get_agent_metrics"
    /\ clickhouse_enabled \in BOOLEAN
    /\ s3_enabled \in BOOLEAN
    /\ date_str \in Dates
    /\ output_dir \in OutputDirs
    /\ num_agents = 0
    /\ num_calls = 0
    /\ call_durations = <<>>
    /\ metrics = <<>>
    /\ csv_file = NoValue
    /\ csv_path = NoValue
    /\ result = [csv_path |-> NoValue, s3_key |-> NoValue]
    /\ exit_code = NoValue

\* get_agent_metrics, ClickHouse enabled, the query and the conversion of its
\* rows succeed (lines 208-241).
QueryClickHouse ==
    /\ pc = "get_agent_metrics"
    /\ clickhouse_enabled
    /\ \E rows \in ChResults :
          metrics' = [i \in 1..Len(rows) |-> ChMetric(i, rows[i])]
    /\ pc' = "generate_csv"
    /\ UNCHANGED <<clickhouse_enabled, s3_enabled, date_str, output_dir, num_agents,
                   num_calls, call_durations, csv_file, csv_path, result, exit_code>>
    /\ UNCHANGED rng
    /\ UNCHANGED <<quoteVars, agentVars>>

\* The fallback to mock data (lines 247-254): random.randint(5, 10) draws from
\* the generator of the process, and the list of metrics starts empty.
MockFallback ==
    /\ pc = "get_agent_metrics"
    /\ num_agents' \in 1..MaxAgents
    /\ rng' = [rng EXCEPT !.draws = @ + 1]
    /\ metrics' = <<>>
    /\ pc' = "mock_loop"
    /\ UNCHANGED <<clickhouse_enabled, s3_enabled, date_str, output_dir,
                   num_calls, call_durations, csv_file, csv_path, result, exit_code>>
    /\ UNCHANGED <<quoteVars, agentVars>>

\* A variant of the except clause that lets the error of the query leave
\* get_agent_metrics: export_metrics re-raises it and main exits with 1.
QueryClickHouseFails_Raises ==
    /\ pc = "get_agent_metrics"
    /\ clickhouse_enabled
    /\ pc' = "exited"
    /\ exit_code' = 1
    /\ UNCHANGED <<clickhouse_enabled, s3_enabled, date_str, output_dir, num_agents,
                   num_calls, call_durations, metrics, csv_file, csv_path, result>>
    /\ UNCHANGED rng
    /\ UNCHANGED <<quoteVars, agentVars>>

\* get_agent_metrics, ClickHouse enabled, the query or the conversion of a row
\* raises: the except clause logs a warning and falls through to the mock data
\* (lines 243-245).
QueryClickHouseFails ==
    /\ clickhouse_enabled
    /\ MockFallback

\* get_agent_metrics, ClickHouse disabled: the mock data is generated at once
\* (line 208 is false).
BeginMock ==
    /\ ~clickhouse_enabled
    /\ MockFallback

\* One iteration of "for agent_id in agent_ids" (lines 255-273):
\* random.randint(10, 100), then _generate_mock_call_data, which reseeds the
\* generator of the process with the agent's seed and draws num_calls times.
MockAgent ==
    /\ pc = "mock_loop"
    /\ Len(metrics) < num_agents
    /\ \E n \in NumCallsChoices :
         \E durations \in MockCallData(n) :
            /\ num_calls' = n
            /\ call_durations' = durations
            /\ rng' = SeededBy(AgentId(Len(metrics) + 1), n)
            /\ metrics' = Append(metrics, MetricRow(AgentId(Len(metrics) + 1), n, durations))
    /\ UNCHANGED <<pc, clickhouse_enabled, s3_enabled, date_str, output_dir, num_agents,
                   csv_file, csv_path, result, exit_code>>
    /\ UNCHANGED <<quoteVars, agentVars>>

\* The loop is over: return metrics (line 276).
MockReturn ==
    /\ pc = "mock_loop"
    /\ Len(metrics) = num_agents
    /\ pc' = "generate_csv"
    /\ num_calls' = 0
    /\ call_durations' = <<>>
    /\ UNCHANGED <<clickhouse_enabled, s3_enabled, date_str, output_dir, num_agents,
                   metrics, csv_file, csv_path, result, exit_code>>
    /\ UNCHANGED rng
    /\ UNCHANGED <<quoteVars, agentVars>>

\* generate_csv (lines 278-306): the file is opened and written.
GenerateCsv ==
    /\ pc = "generate_csv"
    /\ csv_file' = CsvContent(metrics, date_str)
    /\ metrics' = [i \in 1..Len(metrics) |-> WithDate(metrics[i], date_str)]
    /\ csv_path' = CsvFilename(date_str)
    /\ pc' = "move"
    /\ UNCHANGED <<clickhouse_enabled, s3_enabled, date_str, output_dir, num_agents,
                   num_calls, call_durations, result, exit_code>>
    /\ UNCHANGED rng
    /\ UNCHANGED <<quoteVars, agentVars>>

\* generate_csv, open() raises OSError: export_metrics logs and re-raises, main
\* logs and exits with 1 (lines 393-395, 423-425).
GenerateCsvFails ==
    /\ pc = "generate_csv"
    /\ pc' = "exited"
    /\ exit_code' = 1
    /\ UNCHANGED <<clickhouse_enabled, s3_enabled, date_str, output_dir, num_agents,
                   num_calls, call_durations, metrics, csv_file, csv_path, result>>
    /\ UNCHANGED rng
    /\ UNCHANGED <<quoteVars, agentVars>>

\* "Move to output directory if specified" and result['csv_path'] (lines 373-379).
MoveCsv ==
    /\ pc = "move"
    /\ csv_path' = IF output_dir # NoValue THEN PathJoin(output_dir, csv_path) ELSE csv_path
    /\ result' = [result EXCEPT !.csv_path = csv_path']
    /\ pc' = "upload"
    /\ UNCHANGED <<clickhouse_enabled, s3_enabled, date_str, output_dir, num_agents,
                   num_calls, call_durations, metrics, csv_file, exit_code>>
    /\ UNCHANGED rng
    /\ UNCHANGED <<quoteVars, agentVars>>

\* os.makedirs or os.rename raises: the export fails as above.
MoveCsvFails ==
    /\ pc = "move"
    /\ output_dir # NoValue
    /\ pc' = "exited"
    /\ exit_code' = 1
    /\ UNCHANGED <<clickhouse_enabled, s3_enabled, date_str, output_dir, num_agents,
                   num_calls, call_durations, metrics, csv_file, csv_path, result>>
    /\ UNCHANGED rng
    /\ UNCHANGED <<quoteVars, agentVars>>

\* An export that reports the key whether or not the file was uploaded.
UploadAndExit_KeyWithoutUpload ==
    /\ pc = "upload"
    /\ result' = [result EXCEPT !.s3_key = S3Key(date_str, csv_path)]
    /\ pc' = "exited"
    /\ exit_code' = 0
    /\ UNCHANGED <<clickhouse_enabled, s3_enabled, date_str, output_dir, num_agents,
                   num_calls, call_durations, metrics, csv_file, csv_path>>
    /\ UNCHANGED rng
    /\ UNCHANGED <<quoteVars, agentVars>>

\* An export that treats a missing upload as a failure.
UploadAndExit_FailsWithoutKey ==
    /\ pc = "upload"
    /\ \E uploaded \in (IF s3_enabled THEN BOOLEAN ELSE {FALSE}) :
          /\ result' = [result EXCEPT !.s3_key =
                           IF uploaded THEN S3Key(date_str, csv_path) ELSE NoValue]
          /\ exit_code' = IF uploaded THEN 0 ELSE 1
    /\ pc' = "exited"
    /\ UNCHANGED <<clickhouse_enabled, s3_enabled, date_str, output_dir, num_agents,
                   num_calls, call_durations, metrics, csv_file, csv_path>>
    /\ UNCHANGED rng
    /\ UNCHANGED <<quoteVars, agentVars>>

\* upload_to_s3 and the end of export_metrics and main (lines 308-346, 381-391,
\* 415-422): the upload is skipped when S3 is disabled, and returns the key or
\* None; either way main exits with 0.
UploadAndExit ==
    /\ pc = "upload"
    /\ \E uploaded \in (IF s3_enabled THEN BOOLEAN ELSE {FALSE}) :
          result' = [result EXCEPT !.s3_key =
                        IF uploaded THEN S3Key(date_str, csv_path) ELSE NoValue]
    /\ pc' = "exited"
    /\ exit_code' = 0
    /\ UNCHANGED <<clickhouse_enabled, s3_enabled, date_str, output_dir, num_agents,
                   num_calls, call_durations, metrics, csv_file, csv_path>>
    /\ UNCHANGED rng
    /\ UNCHANGED <<quoteVars, agentVars>>

\* No thread has called into the RAG module; the recreate-index script is
\* not running.
EmptyDict == [k \in {} |-> 0]
RagIdle ==
    /\ _rag_cache = EmptyDict
    /\ rag_heap = <<>>
    /\ rag_threads = <<>>
    /\ rag_invalidations = 0
    /\ num_threads = 0
    /\ script_out = [printed |-> <<>>, exit_code |-> NoValue]

\* process_query is not being called.
RunnerIdle ==
    /\ runner_pc = "idle"
    /\ conversation_messages = <<>>
    /\ graph_result = NoValue
    /\ response = NoValue

\* No chat session is open.
AppIdle ==
    /\ app_pc = "no_session"
    /\ session_state = [messages |-> NoValue, session_id |-> NoValue, runner |-> NoValue]

AgentIdle == RagIdle /\ RunnerIdle /\ AppIdle

QuoteIdle ==
    /\ quote_pc = "idle"
    /\ version = NoValue
    /\ annual_rate = 0
    /\ name_hash = 0
    /\ quote_call = NoValue
    /\ quote_locals = NoValue
    /\ quote_out = NoValue

Init == MetricsInit /\ QuoteIdle /\ AgentIdle

Next ==
    \/ QueryClickHouse
    \/ QueryClickHouseFails
    \/ BeginMock
    \/ MockAgent
    \/ MockReturn
    \/ GenerateCsv
    \/ GenerateCsvFails
    \/ MoveCsv
    \/ MoveCsvFails
    \/ UploadAndExit

Spec == Init /\ [][Next]_vars

(***************************************************************************)
(* Metrics export: the aggregation of one agent's durations (lines         *)
(* 260-273) applied to lists of every length, the empty one included.  The *)
(* loop of get_agent_metrics itself passes lists of 10 to 100 durations.   *)
(***************************************************************************)

\* Every list up to MaxCalls durations, and long lists of one repeated value.
AggregateLists ==
    UNION { [1..n -> DurValues] : n \in 0..MaxCalls }
    \cup { [i \in 1..n |-> d] : n \in LongCalls, d \in DurValues }

AggregateInit ==
    /\ pc = "aggregate"
    /\ call_durations \in AggregateLists
    /\ num_calls = Len(call_durations)
    /\ num_agents = MaxAgents
    /\ metrics = <<>>
    /\ clickhouse_enabled = FALSE
    /\ s3_enabled = FALSE
    /\ date_str = "2024-03-01"
    /\ output_dir = NoValue
    /\ csv_file = NoValue
    /\ csv_path = NoValue
    /\ result = [csv_path |-> NoValue, s3_key |-> NoValue]
    /\ exit_code = NoValue
    /\ rng = OsSeeded
    /\ QuoteIdle
    /\ AgentIdle

\* An aggregation that reports zeros for an agent without calls.
Aggregate_EmptyAsZero ==
    /\ pc = "aggregate"
    /\ metrics' = Append(metrics,
                     IF call_durations = <<>>
                     THEN [agent_id |-> AgentId(Len(metrics) + 1),
                           avg_call_length_sec |-> 0, p90_call_length_sec |-> 0,
                           total_calls |-> 0, date |-> NoValue]
                     ELSE MetricRow(AgentId(Len(metrics) + 1), num_calls, call_durations))
    /\ pc' = "appended"
    /\ UNCHANGED <<clickhouse_enabled, s3_enabled, date_str, output_dir, num_agents,
                   num_calls, call_durations, csv_file, csv_path, result, exit_code, rng>>
    /\ UNCHANGED <<quoteVars, agentVars>>

\* Lines 260-273 when statistics.mean returns: the row is appended.
Aggregate ==
    /\ pc = "aggregate"
    /\ ~MeanRaises(call_durations)
    /\ metrics' = Append(metrics,
                     MetricRow(AgentId(Len(metrics) + 1), num_calls, call_durations))
    /\ pc' = "appended"
    /\ UNCHANGED <<clickhouse_enabled, s3_enabled, date_str, output_dir, num_agents,
                   num_calls, call_durations, csv_file, csv_path, result, exit_code, rng>>
    /\ UNCHANGED <<quoteVars, agentVars>>

\* Line 261 when statistics.mean raises StatisticsError: nothing is appended
\* and the exception leaves get_agent_metrics.
AggregateRaises ==
    /\ pc = "aggregate"
    /\ MeanRaises(call_durations)
    /\ pc' = "raised"
    /\ UNCHANGED <<clickhouse_enabled, s3_enabled, date_str, output_dir, num_agents,
                   num_calls, call_durations, metrics, csv_file, csv_path, result,
                   exit_code, rng>>
    /\ UNCHANGED <<quoteVars, agentVars>>

\* The next iteration of the loop, with the next agent's list.
AggregateNextAgent ==
    /\ pc = "appended"
    /\ Len(metrics) < num_agents
    /\ call_durations' \in AggregateLists
    /\ num_calls' = Len(call_durations')
    /\ pc' = "aggregate"
    /\ UNCHANGED <<clickhouse_enabled, s3_enabled, date_str, output_dir, num_agents,
                   metrics, csv_file, csv_path, result, exit_code, rng>>
    /\ UNCHANGED <<quoteVars, agentVars>>

AggregateNext == Aggregate \/ AggregateRaises \/ AggregateNextAgent

AggregateSpec == AggregateInit /\ [][AggregateNext]_vars

(***************************************************************************)
(* Properties of the metrics export.                                       *)
(***************************************************************************)

\* v is the element at 0-based index k of the ascending order of d: at most k
\* elements are smaller, and more than k are smaller or equal.
IsOrderStatistic(d, k, v) ==
    /\ \E i \in 1..Len(d) : d[i] = v
    /\ Cardinality({i \in 1..Len(d) : d[i] < v}) <= k
    /\ Cardinality({i \in 1..Len(d) : d[i] <= v}) > k

\* The row the mock loop has just appended, computed from call_durations.
InMockIteration == pc = "mock_loop" /\ Len(metrics) > 0
LastRow == metrics[Len(metrics)]

\* The spec's example: 10, 20, ..., 100 seconds.
TenToHundred == [i \in 1..10 |-> 1000 * i]

\* C1: for an agent with N >= 1 call durations the reported 90th percentile is
\* the element at 0-based index floor(0.9 * N) of the ascending-sorted
\* durations, clamped to the last index; for N = 1 it is the single value, and
\* for the ascending values 10, 20, ..., 100 it is 100 (not 90).
C1_P90IsElementAtFloorIndex ==
    /\ InMockIteration =>
         LET n == Len(call_durations)
         IN  /\ n >= 1
             /\ IsOrderStatistic(call_durations, Min((9 * n) \div 10, n - 1),
                                 LastRow.p90_call_length_sec)
             /\ n = 1 => LastRow.p90_call_length_sec = call_durations[1]
    /\ MetricRow(AgentId(1), 10, TenToHundred).p90_call_length_sec = 10000

\* C1's case: 11 calls in descending order, the 90th percentile is the second
\* largest value (index 9 of 0..10).
C1_Witness ==
    /\ InMockIteration
    /\ Len(call_durations) = 11
    /\ call_durations[1] = RampValue(11)
    /\ LastRow.p90_call_length_sec = RampValue(10)

\* C2: a metric row's total_calls is the number of call durations its average
\* and 90th percentile were computed from.
C2_TotalCallsIsCount ==
    InMockIteration =>
        LET n == Len(call_durations)
            miss == n * LastRow.avg_call_length_sec - SumSeq(call_durations)
        IN  /\ LastRow.total_calls = n
            \* the averaged list: n * avg is the sum, up to the rounding of avg
            /\ 2 * miss <= n /\ -2 * miss <= n
            /\ \E i \in 1..n : call_durations[i] = LastRow.p90_call_length_sec

C2_Witness ==
    /\ InMockIteration
    /\ Len(metrics) = 2
    /\ Len(call_durations) = 3
    /\ LastRow.total_calls = 3
    /\ LastRow.avg_call_length_sec = 62000

\* C10: for an empty list of metric rows generate_csv has no failing guard and
\* writes the header row only: agent_id, avg_call_length_sec,
\* p90_call_length_sec, total_calls, date.
C10_EmptyMetricsHeaderOnly ==
    /\ (pc = "generate_csv" /\ metrics = <<>>) => ENABLED GenerateCsv
    /\ (csv_file # NoValue /\ metrics = <<>>) =>
          csv_file = << <<"agent_id", "avg_call_length_sec", "p90_call_length_sec",
                          "total_calls", "date">> >>

C10_Witness ==
    /\ metrics = <<>>
    /\ csv_file # NoValue
    /\ Len(csv_file) = 1
    /\ pc = "exited"
    /\ exit_code = 0

\* C11: an agent whose list of durations is empty is rejected by the
\* aggregation: it raises (statistics.mean, StatisticsError) before a row is
\* built, so no row with a division by zero or a made-up average exists.
C11_EmptyListRejected ==
    /\ (pc = "aggregate" /\ call_durations = <<>>) =>
          (ENABLED AggregateRaises /\ ~ENABLED Aggregate)
    /\ pc = "appended" => call_durations # <<>>
    /\ \A i \in 1..Len(metrics) : metrics[i].total_calls >= 1

\* C11's case: a first agent was aggregated, the second has no calls.
C11_Witness ==
    /\ pc = "raised"
    /\ call_durations = <<>>
    /\ Len(metrics) = 1

\* C12: for a non-empty list of N identical durations d the average is d and
\* the 90th percentile is d.
C12_IdenticalValues ==
    (pc = "appended" /\ \A i \in 1..Len(call_durations) : call_durations[i] = call_durations[1]) =>
        /\ metrics[Len(metrics)].avg_call_length_sec = call_durations[1]
        /\ metrics[Len(metrics)].p90_call_length_sec = call_durations[1]

C12_Witness ==
    /\ pc = "appended"
    /\ Len(call_durations) = 20
    /\ \A i \in 1..20 : call_durations[i] = MAX_DURATION
    /\ metrics[Len(metrics)].avg_call_length_sec = MAX_DURATION
    /\ metrics[Len(metrics)].total_calls = 20

Exited == pc = "exited"

\* C13: every upload uses the key agent_metrics/<date>/<filename> with
\* <filename> the name of the CSV file, agent_metrics_<date>.csv, whether or
\* not an output directory is configured.
C13_S3KeyConvention ==
    (Exited /\ exit_code = 0 /\ result.s3_key # NoValue) =>
        result.s3_key = <<"agent_metrics/", date_str, "/", "agent_metrics_", date_str, ".csv">>

\* C14: the process exits with 0 when the export flow completes (the file is
\* written and result['csv_path'] is set, with or without an upload) and with
\* 1 when a step raised; a run has no other end.
C14_ExitCodes ==
    /\ Exited =>
          /\ exit_code \in {0, 1}
          /\ exit_code = 0 <=> (csv_file # NoValue /\ result.csv_path # NoValue)
          /\ exit_code = 1 => result.s3_key = NoValue
    /\ ~Exited => ENABLED Next

\* C14's case: the CSV was written, moving it to OUTPUT_DIR raised.
C14_Witness ==
    /\ Exited
    /\ exit_code = 1
    /\ csv_file # NoValue
    /\ output_dir = "out"

\* C19 (its frame condition): a call leaves the state of the process as it
\* found it, the generator of the random module included.
C19_NoProcessWideStateMutated == [][rng' = rng]_vars

\* C20: a metric row is not mutated once get_agent_metrics has returned it:
\* generate_csv and the later steps leave the rows as they are.
C20_RowsNeverMutated ==
    [][(pc \notin {"get_agent_metrics", "mock_loop"}) => metrics' = metrics]_vars

\* The rows of a list all come from the query (str(agent_id) of a result row)
\* or all from the mock loop (f"agent_{i:03d}").
QueryRowsOnly(ms) == \A i \in 1..Len(ms) : ms[i].agent_id[1] = "ch_agent_"
MockRowsOnly(ms) == \A i \in 1..Len(ms) : ms[i].agent_id = AgentId(i)

\* C23: with ClickHouse enabled, get_agent_metrics does not raise when the
\* query raises: it goes on to the mock data and returns mock rows; when the
\* query succeeds it returns the rows of the query (possibly none), without
\* drawing from the generator and without a mock row.
C23_QueryFailureFallsBackToMock ==
    /\ [][(pc = "get_agent_metrics" /\ clickhouse_enabled) =>
            \/ /\ pc' = "generate_csv"
               /\ rng' = rng
               /\ Len(metrics') <= MaxChRows
               /\ QueryRowsOnly(metrics')
            \/ /\ pc' = "mock_loop"
               /\ exit_code' = NoValue
               /\ metrics' = <<>>
               /\ num_agents' >= 1]_vars
    /\ []((pc = "generate_csv" /\ clickhouse_enabled) =>
            IF rng = OsSeeded
            THEN QueryRowsOnly(metrics) /\ num_agents = 0
            ELSE MockRowsOnly(metrics) /\ Len(metrics) = num_agents /\ num_agents >= 1)

\* C23's case: ClickHouse is enabled, the query raised, the mock rows are
\* returned.
C23_Witness ==
    /\ pc = "generate_csv"
    /\ clickhouse_enabled
    /\ rng # OsSeeded
    /\ Len(metrics) = MaxAgents
    /\ MockRowsOnly(metrics)

MaxListLen == 1000

\* C30: for every N >= 1 the index floor(0.9 * N) lies in 0..N-1, so the
\* out-of-range branch of line 266 is never taken for a non-empty list; for
\* N = 1 the index is 0 and the value is read at index 0.
C30_ClampNeverTaken ==
    /\ \A n \in 1..MaxListLen : P90Index(n) \in 0..(n - 1)
    /\ P90Index(1) = 0
    /\ pc = "appended" =>
          /\ ~ClampTaken(sorted(call_durations))
          /\ metrics[Len(metrics)].p90_call_length_sec =
                sorted(call_durations)[P90Index(Len(call_durations)) + 1]

\* C30's case: a list of one duration has been aggregated.
C30_Witness ==
    /\ pc = "appended"
    /\ Len(call_durations) = 1
    /\ ~ClampTaken(call_durations)
    /\ metrics[Len(metrics)].p90_call_length_sec = call_durations[1]

(***************************************************************************)
(* Quote tool: strings.  A Python str is a sequence of one-character       *)
(* strings.                                                                *)
(***************************************************************************)

LowerLetters ==
    <<"a", "b", "c", "d", "e", "f", "g", "h", "i", "j", "k", "l", "m",
      "n", "o", "p", "q", "r", "s", "t", "u", "v", "w", "x", "y", "z">>
UpperLetters ==
    <<"A", "B", "C", "D", "E", "F", "G", "H", "I", "J", "K", "L", "M",
      "N", "O", "P", "Q", "R", "S", "T", "U", "V", "W", "X", "Y", "Z">>

UpperChar(c) ==
    IF \E i \in 1..Len(LowerLetters) : LowerLetters[i] = c
    THEN UpperLetters[CHOOSE i \in 1..Len(LowerLetters) : LowerLetters[i] = c]
    ELSE c

\* A lookup that forgets to fold the case.
upper_Identity(str) == str

\* str.upper()
upper(str) == [i \in 1..Len(str) |-> UpperChar(str[i])]

\* str.split(sep): the pieces between the separators, at least one piece.
RECURSIVE split(_, _)
split(str, sep) ==
    IF \A i \in 1..Len(str) : str[i] # sep THEN <<str>>
    ELSE LET k == CHOOSE i \in 1..Len(str) :
                      str[i] = sep /\ \A j \in 1..(i - 1) : str[j] # sep
         IN  <<SubSeq(str, 1, k - 1)>> \o split(SubSeq(str, k + 1, Len(str)), sep)

\* str.strip(): without the leading and trailing whitespace.
IsSpace(c) == c = " "
RECURSIVE lstrip(_)
lstrip(str) == IF str # <<>> /\ IsSpace(Head(str)) THEN lstrip(Tail(str)) ELSE str
RECURSIVE rstrip(_)
rstrip(str) ==
    IF str # <<>> /\ IsSpace(str[Len(str)])
    THEN rstrip(SubSeq(str, 1, Len(str) - 1))
    ELSE str
strip(str) == rstrip(lstrip(str))

\* [f.strip() for f in s.split(",") if f.strip()]
StrippedPieces(str) ==
    LET pieces == split(str, ",")
        stripped == [i \in 1..Len(pieces) |-> strip(pieces[i])]
    IN  SelectSeq(stripped, LAMBDA f : f # <<>>)

\* A parser that drops repeated features.
RECURSIVE Dedup(_)
Dedup(fs) ==
    IF fs = <<>> THEN <<>>
    ELSE LET front == Dedup(SubSeq(fs, 1, Len(fs) - 1))
             last == fs[Len(fs)]
         IN  IF \E i \in 1..Len(front) : front[i] = last THEN front
             ELSE Append(front, last)
parse_optional_features_Dedup(optional_features) ==
    Dedup(StrippedPieces(optional_features))

\* _parse_optional_features (demo_agent and src/demo_agent).
parse_optional_features(optional_features) ==
    IF strip(optional_features) = <<>> THEN <<>>
    ELSE StrippedPieces(optional_features)

(***************************************************************************)
(* Quote tool: natural numbers beyond 32 bits, as digit sequences in base  *)
(* 10000, least significant digit first, without leading zeros; and        *)
(* non-negative rationals as pairs of them.                                *)
(***************************************************************************)

BigBase == 10000

RECURSIVE BigFromInt(_)
BigFromInt(n) ==
    IF n = 0 THEN <<>> ELSE <<n % BigBase>> \o BigFromInt(n \div BigBase)

RECURSIVE BigAddC(_, _, _)
BigAddC(a, b, c) ==
    IF a = <<>> /\ b = <<>> THEN (IF c = 0 THEN <<>> ELSE <<c>>)
    ELSE LET da == IF a = <<>> THEN 0 ELSE Head(a)
             db == IF b = <<>> THEN 0 ELSE Head(b)
             sum == da + db + c
         IN  <<sum % BigBase>> \o BigAddC(IF a = <<>> THEN a ELSE Tail(a),
                                          IF b = <<>> THEN b ELSE Tail(b),
                                          sum \div BigBase)
BigAdd(a, b) == BigAddC(a, b, 0)

RECURSIVE BigTrim(_)
BigTrim(a) ==
    IF a # <<>> /\ a[Len(a)] = 0 THEN BigTrim(SubSeq(a, 1, Len(a) - 1)) ELSE a

\* a - b for a >= b.
RECURSIVE BigSubB(_, _, _)
BigSubB(a, b, borrow) ==
    IF a = <<>> THEN <<>>
    ELSE LET db == IF b = <<>> THEN 0 ELSE Head(b)
             d == Head(a) - db - borrow
         IN  <<d % BigBase>> \o BigSubB(Tail(a), IF b = <<>> THEN b ELSE Tail(b),
                                        IF d < 0 THEN 1 ELSE 0)
BigSub(a, b) == BigTrim(BigSubB(a, b, 0))

RECURSIVE BigMulDigit(_, _, _)
BigMulDigit(a, k, c) ==
    IF a = <<>> THEN (IF c = 0 THEN <<>> ELSE <<c>>)
    ELSE LET prod == Head(a) * k + c
         IN  <<prod % BigBase>> \o BigMulDigit(Tail(a), k, prod \div BigBase)

RECURSIVE BigMul(_, _)
BigMul(a, b) ==
    IF a = <<>> \/ b = <<>> THEN <<>>
    ELSE LET rest == BigMul(a, Tail(b))
         IN  BigAdd(IF Head(b) = 0 THEN <<>> ELSE BigMulDigit(a, Head(b), 0),
                    IF rest = <<>> THEN <<>> ELSE <<0>> \o rest)

RECURSIVE BigPow(_, _)
BigPow(a, n) == IF n = 0 THEN <<1>> ELSE BigMul(BigPow(a, n - 1), a)

\* a < b on digit sequences without leading zeros.
RECURSIVE BigLess(_, _)
BigLess(a, b) ==
    IF Len(a) # Len(b) THEN Len(a) < Len(b)
    ELSE IF a = <<>> THEN FALSE
    ELSE IF a[Len(a)] # b[Len(b)] THEN a[Len(a)] < b[Len(b)]
    ELSE BigLess(SubSeq(a, 1, Len(a) - 1), SubSeq(b, 1, Len(b) - 1))

Rat(n, d) == [num |-> n, den |-> d]
RatInt(n) == Rat(BigFromInt(n), <<1>>)
RatZero == RatInt(0)
RatMul(x, y) == Rat(BigMul(x.num, y.num), BigMul(x.den, y.den))
RatDiv(x, y) == Rat(BigMul(x.num, y.den), BigMul(x.den, y.num))
RatAdd(x, y) ==
    Rat(BigAdd(BigMul(x.num, y.den), BigMul(y.num, x.den)), BigMul(x.den, y.den))
\* x - y for x >= y.
RatSub(x, y) ==
    Rat(BigSub(BigMul(x.num, y.den), BigMul(y.num, x.den)), BigMul(x.den, y.den))
RatPow(x, n) == Rat(BigPow(x.num, n), BigPow(x.den, n))
RatIsZero(x) == x.num = <<>>
RatEq(x, y) == BigMul(x.num, y.den) = BigMul(y.num, x.den)
RatLess(x, y) == BigLess(BigMul(x.num, y.den), BigMul(y.num, x.den))

(***************************************************************************)
(* Quote tool: catalog and constants.  Rates and fractions are in          *)
(* thousandths, prices in whole dollars, computed amounts in thousandths   *)
(* of a dollar.                                                            *)
(***************************************************************************)

Versions == {"demo_agent", "src_demo_agent", "wip"}

M_1025R == <<"1", "0", "2", "5", "R">>
M_3038E == <<"3", "0", "3", "8", "E">>
M_5075E == <<"5", "0", "7", "5", "E">>
M_6155R == <<"6", "1", "5", "5", "R">>
M_6120M == <<"6", "1", "2", "0", "M">>
M_S760 == <<"S", "7", "6", "0">>
M_S780 == <<"S", "7", "8", "0">>
M_DB60 == <<"D", "B", "6", "0">>

\* EQUIPMENT_PRICING of demo_agent/constants.py, in insertion order; the
\* dict literal of the wip tool holds the same entries.
DemoPricing ==
    << [key |-> M_1025R, price |-> 17500, type |-> "Compact Utility Tractor"],
       [key |-> M_3038E, price |-> 24000, type |-> "Utility Tractor"],
       [key |-> M_5075E, price |-> 48500, type |-> "Agricultural Tractor"],
       [key |-> M_6155R, price |-> 135000, type |-> "Row Crop Tractor"],
       [key |-> M_S760, price |-> 502000, type |-> "Combine Harvester"],
       [key |-> M_S780, price |-> 545000, type |-> "Combine Harvester"],
       [key |-> M_DB60, price |-> 85000, type |-> "Planter"] >>

\* EQUIPMENT_PRICING of src/demo_agent/constants.py with get_equipment_type.
SrcPricing ==
    << [key |-> M_6155R, price |-> 125000, type |-> "Row Crop Tractor"],
       [key |-> M_6120M, price |-> 85000, type |-> "Row Crop Tractor"],
       [key |-> M_5075E, price |-> 45000, type |-> "Agricultural Tractor"] >>

EQUIPMENT_PRICING == IF version = "src_demo_agent" THEN SrcPricing ELSE DemoPricing

\* model_upper in EQUIPMENT_PRICING, EQUIPMENT_PRICING[model_upper], and
\* ", ".join(EQUIPMENT_PRICING.keys())
InPricing(model_upper) ==
    \E i \in 1..Len(EQUIPMENT_PRICING) : EQUIPMENT_PRICING[i].key = model_upper
PricingEntry(model_upper) ==
    EQUIPMENT_PRICING[CHOOSE i \in 1..Len(EQUIPMENT_PRICING) :
                          EQUIPMENT_PRICING[i].key = model_upper]
PricingKeys == [i \in 1..Len(EQUIPMENT_PRICING) |-> EQUIPMENT_PRICING[i].key]

DEFAULT_FINANCING_TERM == 60
DEFAULT_ANNUAL_INTEREST_RATE == 50
DEFAULT_INTEREST_RATE == 49
TAX_AND_FEES_MULTIPLIER == 1080
OPTIONS_COST_PERCENTAGE == 100

\* The rate constant a version ships with.  The wip tool writes 0.05 in place.
ShippedRate(v) == IF v = "src_demo_agent" THEN DEFAULT_INTEREST_RATE
                  ELSE DEFAULT_ANNUAL_INTEREST_RATE

(***************************************************************************)
(* Quote tool: the arithmetic.                                             *)
(***************************************************************************)

\* The features list of a call: _parse_optional_features, or the list
\* comprehension of the wip tool (line 78).
FeaturesList(optional_features) ==
    IF version = "wip" THEN StrippedPieces(optional_features)
    ELSE parse_optional_features(optional_features)

\* An uplift that charges one slot too many.
calculate_options_cost_OneMore(features_list, base_price) ==
    (Len(features_list) + 1) * (base_price * OPTIONS_COST_PERCENTAGE)

\* _calculate_options_cost: features_count * (base_price * 0.1), in
\* thousandths of a dollar (src/demo_agent: base_price * 0.1 * features_count).
calculate_options_cost(features_list, base_price) ==
    LET features_count == Len(features_list)
    IN  IF version = "src_demo_agent"
        THEN base_price * OPTIONS_COST_PERCENTAGE * features_count
        ELSE features_count * (base_price * OPTIONS_COST_PERCENTAGE)

\* subtotal * TAX_AND_FEES_MULTIPLIER, in thousandths of a dollar.  The
\* subtotal is a multiple of a tenth of a dollar and the multiplier of a
\* hundredth, so the quotients are exact (and the product stays in 32 bits).
TotalPrice(subtotal) == (subtotal \div 100) * (TAX_AND_FEES_MULTIPLIER \div 10)

\* The standard loan payment formula: numerator / denominator (demo_agent
\* lines 125-129, src/demo_agent lines 164-168, wip lines 87-92).
LoanPayment(total_price, monthly_rate, financing_term) ==
    LET growth == RatPow(RatAdd(RatInt(1), monthly_rate), financing_term)
        numerator == RatMul(RatMul(RatInt(total_price), monthly_rate), growth)
        denominator == RatSub(growth, RatInt(1))
    IN  RatDiv(numerator, denominator)

\* rate / 12 for a rate in thousandths.
MonthlyRate(rate) == Rat(BigFromInt(rate), BigFromInt(12 * 1000))

\* A payment whose guard lets the term 0 through.
calculate_monthly_payment_GuardOffByOne(total_price, financing_term) ==
    IF financing_term < 0 THEN RatZero
    ELSE IF financing_term = 0 THEN RatInt(total_price)
    ELSE IF RatIsZero(MonthlyRate(annual_rate))
         THEN Rat(BigFromInt(total_price), BigFromInt(financing_term))
         ELSE LoanPayment(total_price, MonthlyRate(annual_rate), financing_term)

\* A payment that charges simple interest: price times (1 + r n) over n.
calculate_monthly_payment_Simple(total_price, financing_term) ==
    IF financing_term <= 0 THEN RatZero
    ELSE LET r == MonthlyRate(IF version = "wip" THEN DEFAULT_ANNUAL_INTEREST_RATE
                              ELSE annual_rate)
         IN  RatDiv(RatMul(RatInt(total_price),
                           RatAdd(RatInt(1), RatMul(r, RatInt(financing_term)))),
                    RatInt(financing_term))

\* _calculate_monthly_payment (demo_agent lines 116-129, src/demo_agent lines
\* 155-168) and the financing calculation of the wip tool (lines 86-94), in
\* thousandths of a dollar.
calculate_monthly_payment(total_price, financing_term) ==
    IF version = "wip"
    THEN IF financing_term > 0
         THEN LoanPayment(total_price, MonthlyRate(DEFAULT_ANNUAL_INTEREST_RATE),
                          financing_term)
         ELSE RatZero
    ELSE IF financing_term <= 0 THEN RatZero
         ELSE LET monthly_rate == MonthlyRate(annual_rate)
              IN  IF RatIsZero(monthly_rate)
                  THEN Rat(BigFromInt(total_price), BigFromInt(financing_term))
                  ELSE LoanPayment(total_price, monthly_rate, financing_term)

\* The locals of generate_john_deere_quote when it returns (demo_agent lines
\* 70-87, src/demo_agent lines 95-116, wip lines 69-94).
QuoteLocals(call) ==
    LET model_upper == upper(call.model)
    IN  IF ~InPricing(model_upper)
        THEN [found |-> FALSE, model_upper |-> model_upper]
        ELSE LET base_price == PricingEntry(model_upper).price
                 features_list == FeaturesList(call.optional_features)
                 options_cost == calculate_options_cost(features_list, base_price)
                 subtotal == base_price * 1000 + options_cost
                 total_price == TotalPrice(subtotal)
             IN  [found |-> TRUE,
                  model_upper |-> model_upper,
                  equipment_type |-> PricingEntry(model_upper).type,
                  base_price |-> base_price,
                  features_list |-> features_list,
                  options_cost |-> options_cost,
                  subtotal |-> subtotal,
                  total_price |-> total_price,
                  monthly_payment |->
                      calculate_monthly_payment(total_price, call.financing_term)]

(***************************************************************************)
(* Quote tool: the text.  A text is a sequence of lines, a line a sequence *)
(* of pieces: literal strings, strs (sequences of characters) and          *)
(* formatted numbers.  The bullet of the source is written "* ".           *)
(***************************************************************************)

\* The largest digit d in lo..hi with d * b <= a.
RECURSIVE DigitSearch(_, _, _, _)
DigitSearch(a, b, lo, hi) ==
    IF lo = hi THEN lo
    ELSE LET mid == lo + (hi - lo + 1) \div 2
         IN  IF BigLess(a, BigMulDigit(b, mid, 0))
             THEN DigitSearch(a, b, lo, mid - 1)
             ELSE DigitSearch(a, b, mid, hi)

\* Long division: the quotient and the rest of a by b, for a quotient of at
\* most digits + 1 digits.
RECURSIVE BigDivMod(_, _, _)
BigDivMod(a, b, digits) ==
    LET shifted == [i \in 1..digits |-> 0] \o b
        d == DigitSearch(a, shifted, 0, BigBase - 1)
        rest == BigSub(a, IF d = 0 THEN <<>> ELSE BigMulDigit(shifted, d, 0))
    IN  IF digits = 0 THEN [quot |-> d, rest |-> rest]
        ELSE LET low == BigDivMod(rest, b, digits - 1)
             IN  [quot |-> d * BigBase * (IF digits = 2 THEN BigBase ELSE 1) + low.quot,
                  rest |-> low.rest]

\* The integer nearest to a rational below 2^31, an exact tie to the even one.
RatRound(x) ==
    LET qr == BigDivMod(x.num, x.den, 2)
        twice == BigAdd(qr.rest, qr.rest)
    IN  IF BigLess(twice, x.den) THEN qr.quot
        ELSE IF BigLess(x.den, twice) THEN qr.quot + 1
        ELSE IF qr.quot % 2 = 0 THEN qr.quot ELSE qr.quot + 1

\* The digits of format spec ",": groups of three, most significant first.
RECURSIVE ThousandsGroups(_)
ThousandsGroups(whole) ==
    IF whole < 1000 THEN <<whole>>
    ELSE ThousandsGroups(whole \div 1000) \o <<whole % 1000>>

\* A format that cuts the amount to a tenth of a dollar.
FormatCents_Truncated(cents) ==
    [groups |-> ThousandsGroups(cents \div 100),
     frac |-> <<(cents \div 10) % 10, 0>>]

\* f"{x:,.2f}" of an amount given in hundredths.
FormatCents(cents) ==
    [groups |-> ThousandsGroups(cents \div 100),
     frac |-> <<(cents \div 10) % 10, cents % 10>>]

\* f"{x:,.2f}" of an amount in thousandths, and of a rational one.
FormatMilli(milli) == FormatCents(RoundDiv(milli, 10))
FormatRat(x) == FormatCents(RatRound(RatDiv(x, RatInt(10))))

\* f"{rate * 100:.0f}" and f"{rate * 100:.1f}" of a rate in thousandths.
FormatPercent0(rate) == [groups |-> <<RoundDiv(rate, 10)>>, frac |-> <<>>]
FormatPercent1(rate) == [groups |-> <<rate \div 10>>, frac |-> <<rate % 10>>]

\* The "5" that the text of the wip tool spells out in "@ 5% APR".
LiteralPercent == [groups |-> <<5>>, frac |-> <<>>]

\* The characters of a formatted number: the leading group as it is, the
\* other groups as three digits after a comma, then the point and the
\* decimals, if any.
DigitChars == <<"0", "1", "2", "3", "4", "5", "6", "7", "8", "9">>
DigitChar(d) == DigitChars[d + 1]
RECURSIVE Unpadded(_)
Unpadded(n) == IF n < 10 THEN <<DigitChar(n)>> ELSE Unpadded(n \div 10) \o <<DigitChar(n % 10)>>
Pad3(g) == <<DigitChar(g \div 100), DigitChar((g \div 10) % 10), DigitChar(g % 10)>>
RECURSIVE RenderGroups(_)
RenderGroups(groups) ==
    IF groups = <<>> THEN <<>>
    ELSE <<",">> \o Pad3(Head(groups)) \o RenderGroups(Tail(groups))
RenderNumber(f) ==
    Unpadded(Head(f.groups)) \o RenderGroups(Tail(f.groups))
    \o (IF f.frac = <<>> THEN <<>>
        ELSE <<".">> \o [i \in 1..Len(f.frac) |-> DigitChar(f.frac[i])])

\* sep.join(strs)
RECURSIVE Join(_, _)
Join(strs, sep) ==
    IF strs = <<>> THEN <<>>
    ELSE IF Len(strs) = 1 THEN <<strs[1]>>
    ELSE <<strs[1], sep>> \o Join(Tail(strs), sep)

\* f"Model {model} not found. Available models: {available_models}"
NotFoundText(model) ==
    << <<"Model ", model, " not found. Available models: ">> \o Join(PricingKeys, ", ") >>

\* A quote number whose suffix is not padded.
QuoteNumber_Unpadded(now) ==
    LET customer_hash == IF version = "wip" THEN name_hash % 100
                         ELSE (IF name_hash < 0 THEN -name_hash ELSE name_hash) % 100
    IN  <<"JD", <<"%Y%m%d", now>>,
          IF customer_hash < 10 THEN <<customer_hash>>
          ELSE <<customer_hash \div 10, customer_hash % 10>> >>

\* _generate_quote_number: f"JD{date_part}{customer_hash:02d}" with
\* abs(hash(customer_name)) % 100; the wip tool takes hash(...) % 100.
QuoteNumber(now) ==
    LET customer_hash == IF version = "wip" THEN name_hash % 100
                         ELSE (IF name_hash < 0 THEN -name_hash ELSE name_hash) % 100
    IN  <<"JD", <<"%Y%m%d", now>>, <<customer_hash \div 10, customer_hash % 10>> >>

\* features_display: one bulleted line per feature, or "None selected".
FeaturesDisplay(features_list) ==
    IF features_list # <<>>
    THEN [i \in 1..Len(features_list) |-> <<"* ", features_list[i]>>]
    ELSE << <<"* None selected">> >>

QuoteHead(call, L) ==
    << <<"JOHN DEERE EQUIPMENT QUOTE">>,
       <<"Quote #", QuoteNumber(call.now), " | Date: ", <<"%B %d, %Y", call.now>> >>,
       <<"Customer: ", call.customer_name>>,
       <<>>,
       <<"EQUIPMENT:">>,
       <<"* Model: ", L.model_upper>>,
       <<"* Type: ", L.equipment_type>>,
       <<"* Base Price: $", FormatMilli(L.base_price * 1000)>>,
       <<>>,
       <<"OPTIONAL FEATURES:">> >>

\* The quote of demo_agent (_format_quote, lines 153-173) and of the wip tool
\* (lines 102-123), which differ in the APR and in the final newline.
FormatQuoteWithFeatures(call, L) ==
    QuoteHead(call, L)
    \o FeaturesDisplay(L.features_list)
    \o << <<"Options Cost: $", FormatMilli(L.options_cost)>>,
          <<>>,
          <<"TOTAL PRICE: $", FormatMilli(L.total_price)>>,
          <<"(Includes taxes, delivery, and setup)">>,
          <<>>,
          <<"FINANCING:">>,
          <<"Term: ", call.financing_term, " months @ ",
            IF version = "wip" THEN LiteralPercent ELSE FormatPercent0(annual_rate), "% APR">>,
          <<"Monthly Payment: $", FormatRat(L.monthly_payment)>>,
          <<>>,
          <<"Quote valid for 30 days. Contact your dealer for availability.">> >>
    \o (IF version = "wip" THEN << <<>> >> ELSE <<>>)

\* The quote of src/demo_agent (_format_quote, lines 192-215).
FormatQuoteSrc(call, L) ==
    QuoteHead(call, L)
    \o << <<"Options Cost: $", FormatMilli(L.options_cost)>>,
          <<>>,
          <<"PRICING BREAKDOWN:">>,
          <<"* Base Price: $", FormatMilli(L.base_price * 1000)>>,
          <<"* Options: $", FormatMilli(L.options_cost)>>,
          <<"* Subtotal: $", FormatMilli(L.subtotal)>>,
          <<"* Tax & Fees: $", FormatMilli(L.total_price - L.subtotal)>>,
          <<"* TOTAL: $", FormatMilli(L.total_price)>>,
          <<>>,
          <<"FINANCING:">>,
          <<"Term: ", DEFAULT_FINANCING_TERM, " months @ ",
            FormatPercent1(annual_rate), "% APR">>,
          <<"Monthly Payment: $", FormatRat(L.monthly_payment)>>,
          <<>>,
          <<"Quote valid for 30 days. Contact your dealer for availability.">> >>

\* A lookup failure that raises instead of returning a message.
QuoteText_Raises(call, L) ==
    IF ~L.found THEN <<"raise", "ValueError">>
    ELSE IF version = "src_demo_agent" THEN FormatQuoteSrc(call, L)
    ELSE FormatQuoteWithFeatures(call, L)

\* What generate_john_deere_quote returns.
QuoteText(call, L) ==
    IF ~L.found THEN NotFoundText(call.model)
    ELSE IF version = "src_demo_agent" THEN FormatQuoteSrc(call, L)
    ELSE FormatQuoteWithFeatures(call, L)

(***************************************************************************)
(* Quote tool: a process that serves tool calls.                           *)
(***************************************************************************)

Customers == { <<"A", "n", "n">> }
\* hash(customer_name) is fixed within a process and differs between them.
NameHashes == {-7, 1234}
\* datetime.datetime.now(): year, month, day.
Clock == { <<2024, 3, 2>> }
\* The model argument: known and unknown, upper and lower case.
ModelArgs ==
    { M_5075E, <<"5", "0", "7", "5", "e">>, <<"1", "0", "2", "5", "r">>,
      <<"X", "9", "0", "0", "0">> }
\* The optional_features argument.
FeatureChars == {"a", "b", ",", " "}
FeatureArgs == UNION { [1..n -> FeatureChars] : n \in 0..MaxFeatLen }
\* The financing_term argument.
TermArgs == -1..MaxTerm

QuoteCalls ==
    [customer_name : Customers, model : ModelArgs, optional_features : FeatureArgs,
     financing_term : TermArgs, now : Clock]

\* The process has imported one version of the tool with its constants.  The
\* rate is the one the version ships with, or 0: the configuration the
\* zero-rate branch of _calculate_monthly_payment is written for.
QuoteInit ==
    /\ version \in Versions
    /\ annual_rate \in (IF version = "wip" THEN {ShippedRate(version)}
                        ELSE {ShippedRate(version), 0})
    /\ name_hash \in NameHashes
    /\ quote_pc = "idle"
    /\ quote_call = NoValue
    /\ quote_locals = NoValue
    /\ quote_out = NoValue
    /\ rng = OsSeeded
    /\ pc = "exited"
    /\ clickhouse_enabled = FALSE
    /\ s3_enabled = FALSE
    /\ date_str = NoValue
    /\ output_dir = NoValue
    /\ num_agents = 0
    /\ num_calls = 0
    /\ call_durations = <<>>
    /\ metrics = <<>>
    /\ csv_file = NoValue
    /\ csv_path = NoValue
    /\ result = [csv_path |-> NoValue, s3_key |-> NoValue]
    /\ exit_code = 0
    /\ AgentIdle

\* One call of the tool generate_john_deere_quote, from the call to the return.
GenerateQuote ==
    /\ quote_pc = "idle"
    /\ quote_pc' = "returned"
    /\ \E call \in QuoteCalls :
          /\ quote_call' = call
          /\ quote_locals' = QuoteLocals(call)
          /\ quote_out' = QuoteText(call, quote_locals')
    /\ UNCHANGED <<version, annual_rate, name_hash>>
    /\ UNCHANGED <<metricsVars, agentVars>>

\* The caller has taken the text; the frame of the call is gone.
QuoteTaken ==
    /\ quote_pc = "returned"
    /\ quote_pc' = "idle"
    /\ quote_call' = NoValue
    /\ quote_locals' = NoValue
    /\ quote_out' = NoValue
    /\ UNCHANGED <<version, annual_rate, name_hash>>
    /\ UNCHANGED <<metricsVars, agentVars>>

QuoteNext == GenerateQuote \/ QuoteTaken

QuoteSpec == QuoteInit /\ [][QuoteNext]_vars

(***************************************************************************)
(* Properties of the quote tool.                                           *)
(***************************************************************************)

Returned == quote_pc = "returned"
QuoteComputed == Returned /\ quote_locals.found

\* C3: for a catalog model with base price B and a feature string that parses
\* to n features, the options cost is n * (B * 0.1), the subtotal is B + options
\* cost and the total price is subtotal * 1.08; B = 100 and n = 2 give 20.0,
\* 120.0 and 129.6.  (Amounts in thousandths of a dollar.)
C3_QuoteArithmetic ==
    /\ QuoteComputed =>
         LET B == quote_locals.base_price
             n == Len(quote_locals.features_list)
         IN  /\ \E i \in 1..Len(EQUIPMENT_PRICING) :
                   /\ EQUIPMENT_PRICING[i].key = quote_locals.model_upper
                   /\ EQUIPMENT_PRICING[i].price = B
             /\ 10 * quote_locals.options_cost = n * (B * 1000)
             /\ quote_locals.subtotal = B * 1000 + quote_locals.options_cost
             /\ BigMul(BigFromInt(quote_locals.total_price), BigFromInt(100))
                  = BigMul(BigFromInt(quote_locals.subtotal), BigFromInt(108))
    /\ calculate_options_cost(<< <<"a">>, <<"b">> >>, 100) = 20000
    /\ TotalPrice(100 * 1000 + calculate_options_cost(<< <<"a">>, <<"b">> >>, 100)) = 129600

C3_Witness ==
    /\ QuoteComputed
    /\ Len(quote_locals.features_list) = 2
    /\ quote_locals.base_price = 48500
    /\ quote_locals.options_cost = 9700000
    /\ quote_locals.total_price = 62856000

\* The annual rate constant of the running version, in thousandths.
RateConstant == IF version = "wip" THEN 50 ELSE annual_rate

\* C4: for a financing term n > 0 the monthly payment is
\* P * r * (1+r)^n / ((1+r)^n - 1) with P the total price and r the annual
\* rate constant divided by 12, and P / n when r is zero.  (Cross-multiplied:
\* with r = R / 12000, payment * 12000 * ((12000+R)^n - 12000^n)
\* = P * R * (12000+R)^n.)
C4_MonthlyPaymentFormula ==
    (QuoteComputed /\ quote_call.financing_term > 0) =>
        LET n == quote_call.financing_term
            P == BigFromInt(quote_locals.total_price)
            pay == quote_locals.monthly_payment
            grown == BigPow(BigFromInt(12000 + RateConstant), n)
            flat == BigPow(BigFromInt(12000), n)
        IN  /\ pay.den # <<>>
            /\ IF RateConstant = 0
               THEN BigMul(pay.num, BigFromInt(n)) = BigMul(P, pay.den)
               ELSE BigMul(pay.num, BigMul(BigFromInt(12000), BigSub(grown, flat)))
                      = BigMul(pay.den, BigMul(BigMul(P, BigFromInt(RateConstant)), grown))

\* C4's case: two months at 4.9 %.
C4_Witness ==
    /\ QuoteComputed
    /\ quote_call.financing_term = 2
    /\ version = "src_demo_agent"
    /\ annual_rate = 49
    /\ quote_locals.total_price = 58320000
    /\ FormatRat(quote_locals.monthly_payment) = [groups |-> <<29, 338>>, frac |-> <<7, 3>>]

\* The line of the text that follows the line `head`.
LineAfter(text, head) ==
    text[(CHOOSE i \in 1..Len(text) : text[i] = head) + 1]
HasLine(text, line) == \E i \in 1..Len(text) : text[i] = line

\* C5: for a financing term <= 0 and any total price the monthly payment is
\* exactly 0 and no error is produced: the quote is returned, showing 0.00.
C5_NonPositiveTermPaysZero ==
    (QuoteComputed /\ quote_call.financing_term <= 0) =>
        /\ quote_locals.monthly_payment.num = <<>>
        /\ quote_locals.monthly_payment.den # <<>>
        /\ HasLine(quote_out, <<"Monthly Payment: $", [groups |-> <<0>>, frac |-> <<0, 0>>]>>)

C5_Witness ==
    /\ QuoteComputed
    /\ quote_call.financing_term = 0
    /\ quote_locals.total_price > 0
    /\ quote_locals.monthly_payment.num = <<>>

\* C6: for a model whose uppercased form is not a key of the catalog the tool
\* returns (does not raise) a one-line message that contains "not found" and
\* every key of the catalog (in catalog order), and computes no quote.
C6_UnknownModelMessage ==
    (Returned /\ ~InPricing(upper(quote_call.model))) =>
        /\ ~quote_locals.found
        /\ quote_out # <<"raise", "ValueError">>
        /\ Len(quote_out) = 1
        /\ quote_out[1][1] = "Model "
        /\ quote_out[1][2] = quote_call.model
        /\ quote_out[1][3] = " not found. Available models: "
        /\ Len(quote_out[1]) = 2 + 2 * Len(EQUIPMENT_PRICING)
        /\ \A i \in 1..Len(EQUIPMENT_PRICING) :
              quote_out[1][2 * i + 2] = EQUIPMENT_PRICING[i].key

C6_Witness ==
    /\ Returned
    /\ quote_call.model = <<"X", "9", "0", "0", "0">>
    /\ version = "demo_agent"
    /\ ~quote_locals.found
    /\ Len(quote_out[1]) = 16

\* Two strs that differ at most in the case of their letters.
SameLetter(c, d) ==
    \/ c = d
    \/ \E i \in 1..Len(LowerLetters) :
          {c, d} = {LowerLetters[i], UpperLetters[i]}
SameIgnoringCase(a, b) ==
    /\ Len(a) = Len(b)
    /\ \A i \in 1..Len(a) : SameLetter(a[i], b[i])

\* C7: model lookup is case-insensitive: with the other arguments equal, a
\* call resolves any spelling of the model that differs only in case to the
\* same catalog entry and the same quote ("1025r" as "1025R").
C7_LookupIgnoresCase ==
    Returned =>
        \A m \in ModelArgs \cup {PricingKeys[i] : i \in 1..Len(PricingKeys)} :
            (m # quote_call.model /\ SameIgnoringCase(quote_call.model, m)) =>
                LET other == [quote_call EXCEPT !.model = m]
                    otherLocals == QuoteLocals(other)
                IN  /\ otherLocals = quote_locals
                    /\ quote_locals.found => QuoteText(other, otherLocals) = quote_out

C7_Witness ==
    /\ QuoteComputed
    /\ quote_call.model = <<"1", "0", "2", "5", "r">>
    /\ quote_locals.model_upper = M_1025R
    /\ quote_locals.base_price = 17500

\* The features of a string, read off the positions of its commas: the k-th
\* segment lies between the (k-1)-th and the k-th comma, is cut down to the
\* span from its first to its last non-blank character, and counts when that
\* span is not empty.
CommaPositions(str) == {i \in 1..Len(str) : str[i] = ","}
NthComma(str, k) ==
    IF k = 0 THEN 0
    ELSE IF k > Cardinality(CommaPositions(str)) THEN Len(str) + 1
    ELSE CHOOSE p \in CommaPositions(str) :
            Cardinality({q \in CommaPositions(str) : q < p}) = k - 1
TrimmedSegment(str, k) ==
    LET lo == NthComma(str, k - 1) + 1
        hi == NthComma(str, k) - 1
        inked == {i \in lo..hi : str[i] # " "}
    IN  IF inked = {} THEN <<>>
        ELSE SubSeq(str, CHOOSE i \in inked : \A j \in inked : i <= j,
                         CHOOSE i \in inked : \A j \in inked : i >= j)
ExpectedFeatures(str) ==
    SelectSeq([k \in 1..(Cardinality(CommaPositions(str)) + 1) |-> TrimmedSegment(str, k)],
              LAMBDA f : f # <<>>)

\* C8: feature parsing splits the string on commas, trims each token, drops
\* the tokens that are empty after trimming, and keeps the others in input
\* order without deduplicating; an empty or all-blank string has no features.
C8_FeatureParsing ==
    QuoteComputed =>
        /\ quote_locals.features_list = ExpectedFeatures(quote_call.optional_features)
        /\ (\A i \in 1..Len(quote_call.optional_features) :
               quote_call.optional_features[i] = " ") => quote_locals.features_list = <<>>

C8_Witness ==
    /\ QuoteComputed
    /\ quote_call.optional_features = <<"a", ",", "a">>
    /\ quote_locals.features_list = << <<"a">>, <<"a">> >>

\* C9: with optional_features = "" and a valid model the options list has
\* length 0, the options cost is exactly 0.0, and the options section of the
\* text shows "None selected".
C9_NoFeaturesShowsNoneSelected ==
    (QuoteComputed /\ quote_call.optional_features = <<>>) =>
        /\ Len(quote_locals.features_list) = 0
        /\ quote_locals.options_cost = 0
        /\ LineAfter(quote_out, <<"OPTIONAL FEATURES:">>) = <<"* None selected">>

\* The first line of a text that starts with the piece `head` (0: none).
StartsWith(line, head) == Len(line) >= 1 /\ line[1] = head
LineIndex(text, head) ==
    IF \E i \in 1..Len(text) : StartsWith(text[i], head)
    THEN CHOOSE i \in 1..Len(text) :
            /\ StartsWith(text[i], head)
            /\ \A j \in 1..(i - 1) : ~StartsWith(text[j], head)
    ELSE 0

FeaturesListedAt(text, first, features_list) ==
    IF features_list = <<>>
    THEN first <= Len(text) /\ text[first] = <<"* None selected">>
    ELSE /\ first + Len(features_list) - 1 <= Len(text)
         /\ \A i \in 1..Len(features_list) :
               /\ Len(text[first + i - 1]) = 2
               /\ text[first + i - 1][1] = "* "
               /\ text[first + i - 1][2] = features_list[i]

\* C16: every quote holds, in this order, the header (quote number, date,
\* customer), the equipment section (model, type, base price), the options
\* section listing each feature or "None selected", the pricing (a breakdown,
\* or at least the total price), the financing section and the validity
\* disclaimer.
C16_SectionsInOrder ==
    QuoteComputed =>
        LET at(head) == LineIndex(quote_out, head)
            pricing == IF at("PRICING BREAKDOWN:") # 0 THEN at("PRICING BREAKDOWN:")
                       ELSE at("TOTAL PRICE: $")
        IN  /\ at("Quote #") = 2
            /\ quote_out[2][3] = " | Date: "
            /\ at("Customer: ") = 3
            /\ at("EQUIPMENT:") > 3
            /\ at("* Model: ") = at("EQUIPMENT:") + 1
            /\ at("* Type: ") = at("EQUIPMENT:") + 2
            /\ at("* Base Price: $") = at("EQUIPMENT:") + 3
            /\ at("OPTIONAL FEATURES:") > at("* Base Price: $")
            /\ FeaturesListedAt(quote_out, at("OPTIONAL FEATURES:") + 1,
                                quote_locals.features_list)
            /\ pricing > at("OPTIONAL FEATURES:") + Len(quote_locals.features_list)
            /\ at("FINANCING:") > pricing
            /\ at("Term: ") = at("FINANCING:") + 1
            /\ at("Monthly Payment: $") = at("FINANCING:") + 2
            /\ at("Quote valid for 30 days. Contact your dealer for availability.")
                 > at("Monthly Payment: $")

\* C17: the APR of the financing line is shown with exactly 1 decimal place.
C17_AprOneDecimal ==
    QuoteComputed =>
        LET term == quote_out[LineIndex(quote_out, "Term: ")]
            shown == RenderNumber(term[4])
        IN  /\ term[5] = "% APR"
            /\ \E dot \in 1..Len(shown) : shown[dot] = "." /\ Len(shown) = dot + 1

\* Reading a number back from its characters: the commas are dropped, the
\* digits before the point are dollars and the two after it cents.
DigitValue(c) == CHOOSE d \in 0..9 : DigitChars[d + 1] = c
RECURSIVE ParseDigits(_, _)
ParseDigits(chars, acc) ==
    IF chars = <<>> THEN acc
    ELSE IF Head(chars) = "," THEN ParseDigits(Tail(chars), acc)
    ELSE ParseDigits(Tail(chars), 10 * acc + DigitValue(Head(chars)))
ParseCents(chars) ==
    LET dot == CHOOSE i \in 1..Len(chars) : chars[i] = "."
    IN  100 * ParseDigits(SubSeq(chars, 1, dot - 1), 0)
        + ParseDigits(SubSeq(chars, dot + 1, Len(chars)), 0)

\* The amounts read back from the lines of a text that start with `head`.
AmountsShown(text, head) ==
    { ParseCents(RenderNumber(text[i][2])) : i \in {j \in 1..Len(text) : StartsWith(text[j], head)} }

\* C18: reading the numeric fields of the text back (base price, options
\* cost, total, monthly payment; thousands separators, 2 decimals) gives the
\* computed values rounded to 2 decimals.  (Values in cents.)
C18_RoundTrip ==
    QuoteComputed =>
        /\ AmountsShown(quote_out, "* Base Price: $") = {100 * quote_locals.base_price}
        /\ AmountsShown(quote_out, "Options Cost: $")
             = {RoundDiv(quote_locals.options_cost, 10)}
        /\ AmountsShown(quote_out, "TOTAL PRICE: $") \cup AmountsShown(quote_out, "* TOTAL: $")
             = {RoundDiv(quote_locals.total_price, 10)}
        /\ AmountsShown(quote_out, "Monthly Payment: $")
             = {RatRound(Rat(quote_locals.monthly_payment.num,
                             BigMulDigit(quote_locals.monthly_payment.den, 10, 0)))}
        /\ \A i \in 1..Len(quote_out) :
              (Len(quote_out[i]) = 2 /\ quote_out[i][1]
                 \in {"* Base Price: $", "Options Cost: $", "TOTAL PRICE: $", "* TOTAL: $",
                      "Monthly Payment: $"}) =>
                 LET shown == RenderNumber(quote_out[i][2])
                 IN  /\ shown[Len(shown) - 2] = "."
                     /\ \A k \in 1..(Len(shown) - 3) :
                           shown[k] = "," <=> (k < Len(shown) - 3 /\ (Len(shown) - 2 - k) % 4 = 0)

\* C18's case: a payment of 29,338.73 and a total of 58,320.00.
C18_Witness ==
    /\ QuoteComputed
    /\ version = "src_demo_agent"
    /\ AmountsShown(quote_out, "Monthly Payment: $") = {2933873}
    /\ RenderNumber(quote_out[LineIndex(quote_out, "* TOTAL: $")][2])
         = <<"5", "8", ",", "3", "2", "0", ".", "0", "0">>

\* C27: in every rendered quote the term on the "Term:" line is the
\* financing_term argument, the one the monthly payment on the next line was
\* computed with.
C27_TermLineMatchesPayment ==
    QuoteComputed =>
        LET i == LineIndex(quote_out, "Term: ")
        IN  /\ i > 0
            /\ quote_out[i][2] = quote_call.financing_term
            /\ quote_out[i + 1] =
                  <<"Monthly Payment: $", FormatRat(quote_locals.monthly_payment)>>

(***************************************************************************)
(* RAG module (rag_tool.py): the module-level cache of RAGSystem instances *)
(* and the functions get_rag_system, clear_rag_cache and recreate_index,   *)
(* called by the threads of one process (the tools of the agent run in the *)
(* threads of the chat sessions), and scripts/recreate_index.py, a process *)
(* of its own with one thread.  A step is one access to the dict or one    *)
(* construction; a thread can be preempted between two steps.  An instance *)
(* is its index in rag_heap; a field that holds an object is TRUE, None is *)
(* FALSE.                                                                  *)
(***************************************************************************)

ThreadIds == {1, 2}
MaxInstances == 3
MaxInvalidations == 2

\* (collection_name, persist_directory) in src/demo_agent; (index_name,
\* namespace) in the two other versions.  Strings are character sequences.
RagArgs ==
    { [collection_name |-> <<"j", "d">>, persist_directory |-> <<"d", "b">>],
      [collection_name |-> <<"j", "d">>, persist_directory |-> <<"t", "m", "p">>] }

\* cache_key = f"{collection_name}:{persist_directory}" (wip: joined by "_").
CacheKey(args) ==
    args.collection_name \o <<IF version = "wip" THEN "_" ELSE ":">>
                         \o args.persist_directory

\* dict operations: d[k] = v and del d[k].
DictSet(d, k, v) == [x \in (DOMAIN d) \cup {k} |-> IF x = k THEN v ELSE d[x]]
DictDel(d, k) == [x \in (DOMAIN d) \ {k} |-> d[x]]

\* RAGSystem.__init__: the arguments are stored, nothing is created yet.
RAGSystem(args) ==
    [collection_name |-> args.collection_name,
     persist_directory |-> args.persist_directory,
     _embeddings |-> FALSE,
     _vectorstore |-> FALSE,
     _retrieval_chain |-> FALSE,
     _initialized |-> FALSE]

\* The cache key an instance was constructed for.
KeyOf(instance) ==
    CacheKey([collection_name |-> instance.collection_name,
              persist_directory |-> instance.persist_directory])

\* The frame of a thread: where it is, in which function, with which locals,
\* and what the call returned or raised.
NoReturn == [raised |-> NoValue, value |-> 0]
IdleFrame ==
    [pc |-> "idle", fn |-> NoValue,
     args |-> [collection_name |-> <<>>, persist_directory |-> <<>>],
     cache_key |-> <<>>, rag_system |-> 0, query |-> NoValue, ret |-> NoReturn]

InFlight == Cardinality({t \in DOMAIN rag_threads : rag_threads[t].pc # "idle"})
ScriptRunning == script_out.printed # <<>>

MetricsIdle ==
    /\ rng = OsSeeded
    /\ pc = "exited"
    /\ clickhouse_enabled = FALSE
    /\ s3_enabled = FALSE
    /\ date_str = NoValue
    /\ output_dir = NoValue
    /\ num_agents = 0
    /\ num_calls = 0
    /\ call_durations = <<>>
    /\ metrics = <<>>
    /\ csv_file = NoValue
    /\ csv_path = NoValue
    /\ result = [csv_path |-> NoValue, s3_key |-> NoValue]
    /\ exit_code = 0

\* The quote tool is not called; the process runs version v of the code.
QuoteIdleIn(v) ==
    /\ quote_pc = "idle"
    /\ version = v
    /\ annual_rate = 0
    /\ name_hash = 0
    /\ quote_call = NoValue
    /\ quote_locals = NoValue
    /\ quote_out = NoValue

\* The module is imported: the cache is empty (_rag_cache = {}).
RagInit ==
    /\ \E v \in Versions : QuoteIdleIn(v)
    /\ num_threads \in ThreadIds
    /\ rag_threads = [t \in 1..num_threads |-> IdleFrame]
    /\ _rag_cache = EmptyDict
    /\ rag_heap = <<>>
    /\ rag_invalidations = 0
    /\ script_out = [printed |-> <<>>, exit_code |-> NoValue]
    /\ MetricsIdle
    /\ RunnerIdle
    /\ AppIdle

RagFrame == UNCHANGED <<metricsVars, quoteVars, runnerVars, appVars, num_threads>>

\* A thread calls get_rag_system: cache_key = f"..." (first line of the body).
GetRagSystem(t) ==
    /\ ~ScriptRunning
    /\ rag_threads[t].pc = "idle"
    /\ Len(rag_heap) + InFlight < MaxInstances
    /\ \E args \in RagArgs :
          rag_threads' = [rag_threads EXCEPT ![t] =
              [IdleFrame EXCEPT !.pc = "get_check", !.fn = "get_rag_system",
                                !.args = args, !.cache_key = CacheKey(args)]]
    /\ UNCHANGED <<_rag_cache, rag_heap, rag_invalidations, script_out>>
    /\ RagFrame

\* if cache_key not in _rag_cache:
GetCheck(t) ==
    /\ rag_threads[t].pc = "get_check"
    /\ rag_threads' = [rag_threads EXCEPT ![t].pc =
          IF rag_threads[t].cache_key \in DOMAIN _rag_cache
          THEN "get_return" ELSE "get_construct"]
    /\ UNCHANGED <<_rag_cache, rag_heap, rag_invalidations, script_out>>
    /\ RagFrame

\* RAGSystem(...): the right-hand side of the assignment is evaluated.
GetConstruct(t) ==
    /\ rag_threads[t].pc = "get_construct"
    /\ rag_heap' = Append(rag_heap, RAGSystem(rag_threads[t].args))
    /\ rag_threads' = [rag_threads EXCEPT ![t].pc = "get_store",
                                          ![t].rag_system = Len(rag_heap) + 1]
    /\ UNCHANGED <<_rag_cache, rag_invalidations, script_out>>
    /\ RagFrame

\* _rag_cache[cache_key] = <the new instance>
GetStore(t) ==
    /\ rag_threads[t].pc = "get_store"
    /\ _rag_cache' = DictSet(_rag_cache, rag_threads[t].cache_key, rag_threads[t].rag_system)
    /\ rag_threads' = [rag_threads EXCEPT ![t].pc = "get_return"]
    /\ UNCHANGED <<rag_heap, rag_invalidations, script_out>>
    /\ RagFrame

\* return _rag_cache[cache_key]: KeyError if the key is gone by now.
GetReturn(t) ==
    /\ rag_threads[t].pc = "get_return"
    /\ rag_threads' = [rag_threads EXCEPT ![t].pc = "returned", ![t].ret =
          IF rag_threads[t].cache_key \in DOMAIN _rag_cache
          THEN [raised |-> NoValue, value |-> _rag_cache[rag_threads[t].cache_key]]
          ELSE [raised |-> "KeyError", value |-> 0]]
    /\ UNCHANGED <<_rag_cache, rag_heap, rag_invalidations, script_out>>
    /\ RagFrame

\* clear_rag_cache (src/demo_agent and demo_agent): _rag_cache.clear().
ClearRagCache(t) ==
    /\ ~ScriptRunning
    /\ version # "wip"
    /\ rag_threads[t].pc = "idle"
    /\ rag_invalidations < MaxInvalidations
    /\ rag_invalidations' = rag_invalidations + 1
    /\ _rag_cache' = EmptyDict
    /\ UNCHANGED <<rag_heap, rag_threads, script_out>>
    /\ RagFrame

\* A thread calls recreate_index (src/demo_agent only): cache_key = f"...".
RecreateIndex(t) ==
    /\ ~ScriptRunning
    /\ version = "src_demo_agent"
    /\ rag_threads[t].pc = "idle"
    /\ Len(rag_heap) + InFlight < MaxInstances
    /\ rag_invalidations < MaxInvalidations
    /\ rag_invalidations' = rag_invalidations + 1
    /\ \E args \in RagArgs :
          rag_threads' = [rag_threads EXCEPT ![t] =
              [IdleFrame EXCEPT !.pc = "recreate_check", !.fn = "recreate_index",
                                !.args = args, !.cache_key = CacheKey(args)]]
    /\ UNCHANGED <<_rag_cache, rag_heap, script_out>>
    /\ RagFrame

\* if cache_key in _rag_cache:
RecreateCheck(t) ==
    /\ rag_threads[t].pc = "recreate_check"
    /\ rag_threads' = [rag_threads EXCEPT ![t].pc =
          IF rag_threads[t].cache_key \in DOMAIN _rag_cache
          THEN "recreate_del" ELSE "recreate_construct"]
    /\ UNCHANGED <<_rag_cache, rag_heap, rag_invalidations, script_out>>
    /\ RagFrame

\* del _rag_cache[cache_key]: KeyError if the key is gone by now.
RecreateDel(t) ==
    /\ rag_threads[t].pc = "recreate_del"
    /\ IF rag_threads[t].cache_key \in DOMAIN _rag_cache
       THEN /\ _rag_cache' = DictDel(_rag_cache, rag_threads[t].cache_key)
            /\ rag_threads' = [rag_threads EXCEPT ![t].pc = "recreate_construct"]
       ELSE /\ rag_threads' = [rag_threads EXCEPT ![t].pc = "returned",
                                  ![t].ret = [raised |-> "KeyError", value |-> 0]]
            /\ UNCHANGED _rag_cache
    /\ UNCHANGED <<rag_heap, rag_invalidations, script_out>>
    /\ RagFrame

\* rag_system = RAGSystem(...)
RecreateConstruct(t) ==
    /\ rag_threads[t].pc = "recreate_construct"
    /\ rag_heap' = Append(rag_heap, RAGSystem(rag_threads[t].args))
    /\ rag_threads' = [rag_threads EXCEPT ![t].pc = "recreate_store",
                                          ![t].rag_system = Len(rag_heap) + 1]
    /\ UNCHANGED <<_rag_cache, rag_invalidations, script_out>>
    /\ RagFrame

\* A recreate_index that forgets to store the new instance.
RecreateStore_NotStored(t) ==
    /\ rag_threads[t].pc = "recreate_store"
    /\ rag_threads' = [rag_threads EXCEPT ![t].pc = "recreate_return"]
    /\ UNCHANGED <<_rag_cache, rag_heap, rag_invalidations, script_out>>
    /\ RagFrame

\* _rag_cache[cache_key] = rag_system
RecreateStore(t) ==
    /\ rag_threads[t].pc = "recreate_store"
    /\ _rag_cache' = DictSet(_rag_cache, rag_threads[t].cache_key, rag_threads[t].rag_system)
    /\ rag_threads' = [rag_threads EXCEPT ![t].pc = "recreate_return"]
    /\ UNCHANGED <<rag_heap, rag_invalidations, script_out>>
    /\ RagFrame

\* return rag_system: to the calling tool, or to main() of the script.
RecreateReturn(t) ==
    /\ rag_threads[t].pc = "recreate_return"
    /\ rag_threads' = [rag_threads EXCEPT
          ![t].pc = IF ScriptRunning THEN "script_try" ELSE "returned",
          ![t].ret = [raised |-> NoValue, value |-> rag_threads[t].rag_system]]
    /\ UNCHANGED <<_rag_cache, rag_heap, rag_invalidations, script_out>>
    /\ RagFrame

\* The caller has taken the result (or the exception): the frame is gone.
RagCallOver(t) ==
    /\ rag_threads[t].pc = "returned"
    /\ rag_threads' = [rag_threads EXCEPT ![t] = IdleFrame]
    /\ UNCHANGED <<_rag_cache, rag_heap, rag_invalidations, script_out>>
    /\ RagFrame

\* scripts/recreate_index.py, main(): a fresh process with one thread prints
\* its banner and calls recreate_index with the configured collection.
ScriptMain ==
    /\ version = "src_demo_agent"
    /\ num_threads = 1
    /\ ~ScriptRunning
    /\ rag_heap = <<>>
    /\ rag_invalidations = 0
    /\ rag_threads[1].pc = "idle"
    /\ script_out' = [script_out EXCEPT !.printed = <<"Recreating ChromaDB index...">>]
    /\ rag_invalidations' = 1
    /\ \E args \in RagArgs :
          rag_threads' = [rag_threads EXCEPT ![1] =
              [IdleFrame EXCEPT !.pc = "recreate_check", !.fn = "recreate_index",
                                !.args = args, !.cache_key = CacheKey(args)]]
    /\ UNCHANGED <<_rag_cache, rag_heap>>
    /\ RagFrame

\* The rest of the try block (lines 34-42) and the handler (lines 44-46):
\* rag_system._vectorstore._collection.count() raises AttributeError when
\* _vectorstore is None, and the handler prints the failure and exits with 1;
\* otherwise the count and the response of the sample query are printed and
\* main returns (exit status 0).
ScriptAfterRecreate ==
    /\ rag_threads[1].pc = "script_try"
    /\ LET rag_system == rag_heap[rag_threads[1].ret.value]
       IN  script_out' =
             IF rag_system._vectorstore
             THEN [printed |-> script_out.printed \o
                      <<"Index recreated successfully!", "Collection contains",
                        "Testing the index with a sample query...", "Query:", "Response:">>,
                   exit_code |-> 0]
             ELSE [printed |-> script_out.printed \o
                      <<"Index recreated successfully!", "Failed to recreate index:">>,
                   exit_code |-> 1]
    /\ rag_threads' = [rag_threads EXCEPT ![1].pc = "script_exited"]
    /\ UNCHANGED <<_rag_cache, rag_heap, rag_invalidations>>
    /\ RagFrame

RagNext ==
    \/ \E t \in DOMAIN rag_threads : GetRagSystem(t)
    \/ \E t \in DOMAIN rag_threads : GetCheck(t)
    \/ \E t \in DOMAIN rag_threads : GetConstruct(t)
    \/ \E t \in DOMAIN rag_threads : GetStore(t)
    \/ \E t \in DOMAIN rag_threads : GetReturn(t)
    \/ \E t \in DOMAIN rag_threads : ClearRagCache(t)
    \/ \E t \in DOMAIN rag_threads : RecreateIndex(t)
    \/ \E t \in DOMAIN rag_threads : RecreateCheck(t)
    \/ \E t \in DOMAIN rag_threads : RecreateDel(t)
    \/ \E t \in DOMAIN rag_threads : RecreateConstruct(t)
    \/ \E t \in DOMAIN rag_threads : RecreateStore(t)
    \/ \E t \in DOMAIN rag_threads : RecreateReturn(t)
    \/ \E t \in DOMAIN rag_threads : RagCallOver(t)
    \/ ScriptMain
    \/ ScriptAfterRecreate

RagSpec == RagInit /\ [][RagNext]_vars

(***************************************************************************)
(* Properties of the RAG cache and of the recreate-index script.           *)
(***************************************************************************)

\* The instances constructed for a key, and the one constructed last (0: none).
InstancesFor(k) == {i \in 1..Len(rag_heap) : KeyOf(rag_heap[i]) = k}
Newest(k) == IF InstancesFor(k) = {} THEN 0
             ELSE CHOOSE i \in InstancesFor(k) : \A j \in InstancesFor(k) : j <= i
ReturnedFrom(t, fn) == rag_threads[t].pc = "returned" /\ rag_threads[t].fn = fn

\* C21: the cache constructs once per distinct cache key and reuses the
\* instance: after any sequence or concurrent interleaving of get_rag_system
\* calls with the same key, with no clear or recreate in between, exactly one
\* RAGSystem has been constructed for that key and every call returned that
\* same instance.
C21_OneInstancePerKey ==
    rag_invalidations = 0 =>
        /\ \A i, j \in 1..Len(rag_heap) :
              KeyOf(rag_heap[i]) = KeyOf(rag_heap[j]) => i = j
        /\ \A t, u \in DOMAIN rag_threads :
              (/\ ReturnedFrom(t, "get_rag_system")
               /\ ReturnedFrom(u, "get_rag_system")
               /\ rag_threads[t].cache_key = rag_threads[u].cache_key) =>
                  /\ rag_threads[t].ret.raised = NoValue
                  /\ rag_threads[t].ret.value = rag_threads[u].ret.value

\* C22: recreate_index removes any cached instance for the key and returns
\* a fresh, uninitialized RAGSystem that it has stored under the key; the
\* next get_rag_system with that key returns exactly that instance, the one
\* constructed last for the key, so an instance cached before is not returned
\* again.  (Calls that do not overlap: one thread.)
C22_RecreateReplacesCached ==
    /\ [](num_threads = 1 =>
            /\ \A k \in DOMAIN _rag_cache : _rag_cache[k] = Newest(k)
            /\ rag_threads[1].pc = "recreate_construct" =>
                  rag_threads[1].cache_key \notin DOMAIN _rag_cache)
    /\ [][num_threads = 1 =>
            /\ rag_threads[1].pc = "recreate_return" =>
                  LET r == rag_threads'[1].ret.value
                      k == rag_threads[1].cache_key
                  IN  /\ rag_threads'[1].ret.raised = NoValue
                      /\ r = Len(rag_heap)
                      /\ rag_heap[r] = RAGSystem(rag_threads[1].args)
                      /\ k \in DOMAIN _rag_cache
                      /\ _rag_cache[k] = r
            /\ rag_threads[1].pc = "get_return" =>
                  /\ rag_threads'[1].ret.raised = NoValue
                  /\ rag_threads'[1].ret.value = Newest(rag_threads[1].cache_key)
                  /\ rag_heap' = rag_heap]_vars

\* C22's case: an instance was cached for the key; recreate_index has returned
\* a second one, which is now the cached one.
C22_Witness ==
    /\ num_threads = 1
    /\ rag_invalidations = 1
    /\ ReturnedFrom(1, "recreate_index")
    /\ rag_threads[1].ret.value = 2
    /\ KeyOf(rag_heap[1]) = rag_threads[1].cache_key
    /\ _rag_cache[rag_threads[1].cache_key] = 2

\* C29: when recreate_index returns normally, the script reads the document
\* count of the new instance, runs the sample query and finishes without its
\* failure path: no failure message, no exit status 1.
C29_ScriptSucceeds ==
    (ScriptRunning /\ rag_threads[1].pc = "script_exited") =>
        /\ script_out.exit_code = 0
        /\ \A i \in 1..Len(script_out.printed) :
              script_out.printed[i] # "Failed to recreate index:"
        /\ \E i \in 1..Len(script_out.printed) :
              script_out.printed[i] = "Response:"

(***************************************************************************)
(* RAGSystem (rag_tool.py): the life of one instance under a sequence of   *)
(* initialize, search and clear_index calls.  An initialization runs to    *)
(* its end or fails at one of its steps; what it leaves set depends on the *)
(* step.                                                                   *)
(***************************************************************************)

\* Where initialize() fails: creating the embeddings, reaching the vector
\* database, building the vector store, building the retrieval chain, or
\* nowhere.  In src/demo_agent (_create_vector_store) and wip
\* (_load_documents) the vector store is assigned before the documents are
\* added to it, so the step can also fail with the vector store set; in
\* demo_agent it is assigned only when the step returns.
InitOutcomes ==
    {"embeddings", "backend", "vector_store", "chain", "ok"}
    \cup (IF version # "demo_agent" THEN {"add_documents"} ELSE {})

\* The assignments initialize() has made when it stops at the given step.
InitializedUpTo(self, outcome) ==
    [self EXCEPT
        !._embeddings = IF outcome = "embeddings" THEN @ ELSE TRUE,
        !._vectorstore = IF outcome \in {"embeddings", "backend", "vector_store"}
                         THEN @ ELSE TRUE,
        !._retrieval_chain = IF outcome = "ok" THEN TRUE ELSE @,
        !._initialized = (outcome = "ok")]

\* An initialize() that sets the flag before it builds the retrieval chain.
initialize_FlagFirst(self, outcome) ==
    IF self._initialized
    THEN [self |-> self, raised |-> FALSE]
    ELSE [self |-> [InitializedUpTo(self, outcome) EXCEPT
                       !._initialized = outcome \in {"chain", "ok"}],
          raised |-> (outcome # "ok" /\ version # "wip")]

\* initialize(): returns at once when initialized; otherwise runs the steps,
\* sets _initialized after the last one, and re-raises what a step raised
\* (src/demo_agent and demo_agent) or swallows it (wip).
initialize(self, outcome) ==
    IF self._initialized
    THEN [self |-> self, raised |-> FALSE]
    ELSE [self |-> InitializedUpTo(self, outcome),
          raised |-> (outcome # "ok" /\ version # "wip")]

\* The query argument of search().
Queries == {"What are the specifications for the 6155R tractor?", "How much is a 5075E?"}

RagSystemInit ==
    /\ \E v \in Versions : QuoteIdleIn(v)
    /\ num_threads = 1
    /\ rag_threads = <<[IdleFrame EXCEPT !.rag_system = 1]>>
    /\ \E args \in RagArgs : rag_heap = <<RAGSystem(args)>>
    /\ _rag_cache = EmptyDict
    /\ rag_invalidations = 0
    /\ script_out = [printed |-> <<>>, exit_code |-> NoValue]
    /\ MetricsIdle
    /\ RunnerIdle
    /\ AppIdle

RagSystemFrame ==
    UNCHANGED <<metricsVars, quoteVars, runnerVars, appVars, num_threads,
                _rag_cache, rag_invalidations, script_out>>

\* A call of self.initialize() by the holder of the instance.
Initialize ==
    /\ rag_threads[1].pc = "idle"
    /\ \E outcome \in InitOutcomes :
          LET done == initialize(rag_heap[1], outcome)
          IN  /\ rag_heap' = <<done.self>>
              /\ rag_threads' = [rag_threads EXCEPT
                    ![1].pc = "returned", ![1].fn = "initialize",
                    ![1].ret = [raised |-> IF done.raised THEN "Exception" ELSE NoValue,
                                value |-> NoValue]]
    /\ RagSystemFrame

\* search(), "if not self._initialized: self.initialize()": an error of
\* initialize() leaves search() (it is not caught there).
SearchBegin ==
    /\ rag_threads[1].pc = "idle"
    /\ IF rag_heap[1]._initialized
       THEN /\ \E query \in Queries :
                  rag_threads' = [rag_threads EXCEPT ![1].pc = "search_query",
                                     ![1].fn = "search", ![1].query = query]
            /\ UNCHANGED rag_heap
       ELSE \E outcome \in InitOutcomes, query \in Queries :
               LET done == initialize(rag_heap[1], outcome)
               IN  /\ rag_heap' = <<done.self>>
                   /\ rag_threads' = [rag_threads EXCEPT
                         ![1].pc = IF done.raised THEN "returned"
                                   ELSE "search_after_initialize",
                         ![1].fn = "search",
                         ![1].query = query,
                         ![1].ret = [raised |-> IF done.raised THEN "Exception" ELSE NoValue,
                                     value |-> NoValue]]
    /\ RagSystemFrame

\* search(), the rest: without a retrieval chain the "not initialized" text;
\* otherwise the chain is invoked and its answer returned, or the text of
\* its error.
SearchQuery ==
    /\ rag_threads[1].pc \in {"search_query", "search_after_initialize"}
    /\ \E answer \in (IF rag_heap[1]._retrieval_chain
                      THEN {"answer", "Error processing your query: "}
                      ELSE {IF version = "wip" THEN "RAG system not initialized."
                            ELSE "RAG system not properly initialized"}) :
          rag_threads' = [rag_threads EXCEPT ![1].pc = "returned",
                             ![1].ret = [raised |-> NoValue, value |-> answer]]
    /\ UNCHANGED rag_heap
    /\ RagSystemFrame

\* clear_index() (src/demo_agent): the collection is emptied (an error is
\* logged and dropped), the state is reset and initialize() is called.
ClearIndex ==
    /\ version = "src_demo_agent"
    /\ rag_threads[1].pc = "idle"
    /\ \E outcome \in InitOutcomes :
          LET reset == [rag_heap[1] EXCEPT !._initialized = FALSE,
                                           !._vectorstore = FALSE,
                                           !._retrieval_chain = FALSE]
              done == initialize(reset, outcome)
          IN  /\ rag_heap' = <<done.self>>
              /\ rag_threads' = [rag_threads EXCEPT
                    ![1].pc = "returned", ![1].fn = "clear_index",
                    ![1].ret = [raised |-> IF done.raised THEN "Exception" ELSE NoValue,
                                value |-> NoValue]]
    /\ RagSystemFrame

\* The call is over; the holder keeps the instance.
MethodOver ==
    /\ rag_threads[1].pc = "returned"
    /\ rag_threads' = <<[IdleFrame EXCEPT !.rag_system = 1]>>
    /\ UNCHANGED rag_heap
    /\ RagSystemFrame

RagSystemNext ==
    \/ Initialize
    \/ SearchBegin
    \/ SearchQuery
    \/ ClearIndex
    \/ MethodOver

RagSystemSpec == RagSystemInit /\ [][RagSystemNext]_vars

\* C26: after any sequence of initialize, search and clear_index calls,
\* initializations that fail part-way included: _initialized is true only if
\* the vector store and the retrieval chain are both set; initialize() on an
\* initialized instance changes nothing; search() on an uninitialized
\* instance attempts the initialization before it queries.
C26_InitializedMeansReady ==
    /\ [](\A i \in 1..Len(rag_heap) :
            rag_heap[i]._initialized =>
               (rag_heap[i]._vectorstore /\ rag_heap[i]._retrieval_chain))
    /\ [][(rag_threads[1].pc = "idle" /\ rag_heap[1]._initialized
             /\ rag_threads'[1].fn = "initialize") =>
            (rag_heap' = rag_heap /\ rag_threads'[1].ret.raised = NoValue)]_vars
    /\ [][(rag_threads[1].pc = "idle" /\ ~rag_heap[1]._initialized
             /\ rag_threads'[1].fn = "search") =>
            /\ rag_threads'[1].pc \in {"search_after_initialize", "returned"}
            /\ rag_threads'[1].pc = "returned" => rag_threads'[1].ret.raised # NoValue
            /\ \E outcome \in InitOutcomes :
                  rag_heap'[1] = InitializedUpTo(rag_heap[1], outcome)]_vars
    /\ [](rag_threads[1].pc = "search_query" => rag_heap[1]._initialized)

\* C26's case: the instance was initialized, clear_index reset it and its
\* initialization failed at the retrieval chain: the vector store is set, the
\* chain and the flag are not.
C26_Witness ==
    /\ rag_threads[1].pc = "returned"
    /\ rag_threads[1].fn = "clear_index"
    /\ rag_threads[1].ret.raised = "Exception"
    /\ rag_heap[1]._vectorstore
    /\ ~rag_heap[1]._retrieval_chain
    /\ ~rag_heap[1]._initialized

(***************************************************************************)
(* JohnDeereAgentRunner.process_query (john_deere/agent.py, the same in    *)
(* the three versions but for logging): the compiled graph is invoked with *)
(* the conversation; it raises, or returns a state whose "messages" are    *)
(* the conversation followed by the messages the graph added.              *)
(***************************************************************************)

MaxConversation == 2
MaxNewMessages == 2

Contents == {"What does a 5075E cost?", "The 5075E starts at $35,000."}
Messages == [type : {"human", "ai"}, content : Contents]
Conversations == UNION { [1..n -> Messages] : n \in 0..MaxConversation }
NewMessages ==
    UNION { [1..n -> [type : {"ai"}, content : Contents]] : n \in 0..MaxNewMessages }
GraphErrors == {"Connection error.", "Recursion limit of 25 reached"}

\* A process_query that answers with the oldest message of the result.
process_query_FirstMessage(invoked) ==
    IF invoked.raised # NoValue
    THEN <<"Error processing your request: ", invoked.raised>>
    ELSE IF invoked.messages # <<>>
         THEN <<invoked.messages[1].content>>
         ELSE <<"No response generated">>

\* The value process_query returns, given what self.graph.invoke did: the
\* except clause turns an error into a text; an empty list gives the fixed
\* text; otherwise result["messages"][-1].content.
process_query(invoked) ==
    IF invoked.raised # NoValue
    THEN <<"Error processing your request: ", invoked.raised>>
    ELSE IF invoked.messages # <<>>
         THEN <<invoked.messages[Len(invoked.messages)].content>>
         ELSE <<"No response generated">>

RunnerInit ==
    /\ \E v \in Versions : QuoteIdleIn(v)
    /\ RunnerIdle
    /\ MetricsIdle
    /\ RagIdle
    /\ AppIdle

RunnerFrame == UNCHANGED <<metricsVars, quoteVars, ragVars, appVars>>

\* process_query is called: initial_state = {"messages": conversation_messages}.
ProcessQuery ==
    /\ runner_pc = "idle"
    /\ conversation_messages' \in Conversations
    /\ runner_pc' = "invoke"
    /\ UNCHANGED <<graph_result, response>>
    /\ RunnerFrame

\* result = self.graph.invoke(initial_state, self.config)
GraphInvoke ==
    /\ runner_pc = "invoke"
    /\ \/ \E e \in GraphErrors : graph_result' = [raised |-> e, messages |-> <<>>]
       \/ \E new \in NewMessages :
             graph_result' = [raised |-> NoValue, messages |-> conversation_messages \o new]
    /\ runner_pc' = "invoked"
    /\ UNCHANGED <<conversation_messages, response>>
    /\ RunnerFrame

\* The rest of the try block, or the except clause: a string is returned.
ProcessQueryReturn ==
    /\ runner_pc = "invoked"
    /\ response' = process_query(graph_result)
    /\ runner_pc' = "returned"
    /\ UNCHANGED <<conversation_messages, graph_result>>
    /\ RunnerFrame

\* The caller has the response; the runner is ready for the next query.
RunnerCallOver ==
    /\ runner_pc = "returned"
    /\ runner_pc' = "idle"
    /\ conversation_messages' = <<>>
    /\ graph_result' = NoValue
    /\ response' = NoValue
    /\ RunnerFrame

RunnerNext == ProcessQuery \/ GraphInvoke \/ ProcessQueryReturn \/ RunnerCallOver

RunnerSpec == RunnerInit /\ [][RunnerNext]_vars

\* C25: process_query never raises: when the graph execution raises it
\* returns "Error processing your request: <error>", when the result has an
\* empty message list it returns "No response generated", and otherwise it
\* returns the content of the last message.
C25_ProcessQueryNeverRaises ==
    /\ runner_pc = "invoked" => ENABLED ProcessQueryReturn
    /\ runner_pc = "returned" =>
          IF graph_result.raised # NoValue
          THEN response = <<"Error processing your request: ", graph_result.raised>>
          ELSE IF Len(graph_result.messages) = 0
               THEN response = <<"No response generated">>
               ELSE \E last \in Messages :
                       /\ graph_result.messages
                            = SubSeq(graph_result.messages, 1, Len(graph_result.messages) - 1)
                              \o <<last>>
                       /\ response = <<last.content>>

\* C25's case: the graph raised on a conversation of two messages, and the
\* caller got the error text.
C25_Witness ==
    /\ runner_pc = "returned"
    /\ Len(conversation_messages) = 2
    /\ graph_result.raised = "Connection error."
    /\ response = <<"Error processing your request: ", "Connection error.">>

(***************************************************************************)
(* Streamlit app (app.py, demo_agent and src/demo_agent): one chat session *)
(* and its script runs.  Streamlit runs the script from the top on every   *)
(* interaction and on st.rerun(); each run calls main(), which constructs  *)
(* a StreamlitApp over the st.session_state of the session.                *)
(***************************************************************************)

MaxHistory == 5

SUCCESS_WELCOME == "Welcome! I'm your John Deere sales assistant."
WelcomeEntry == [message |-> [type |-> "ai", content |-> SUCCESS_WELCOME], agent |-> "system"]
UserEntry(text) == [message |-> [type |-> "human", content |-> text], agent |-> "user"]
AssistantEntry(text) == [message |-> [type |-> "ai", content |-> text], agent |-> "assistant"]

\* What the user does in a script run: nothing, an example button, the chat box.
UserInputs == {NoValue, "EXAMPLE_QUERY_1", "typed question"}
\* What process_query returns.
Responses == {"answer", "Error processing your request: "}

AppInit ==
    /\ version \in {"demo_agent", "src_demo_agent"}
    /\ QuoteIdleIn(version)
    /\ AppIdle
    /\ MetricsIdle
    /\ RagIdle
    /\ RunnerIdle

AppFrame == UNCHANGED <<metricsVars, quoteVars, ragVars, runnerVars>>

\* A script run begins: main() constructs StreamlitApp, whose __init__ calls
\* _initialize_session_state: keys that are missing are created.
InitializeSessionState ==
    /\ app_pc \in {"no_session", "waiting", "stopped", "rerun"}
    /\ app_pc = "no_session" \/ Len(session_state.messages) < MaxHistory
    /\ session_state' =
          IF app_pc = "no_session"
          THEN [session_state EXCEPT !.messages = <<>>, !.session_id = "uuid4"]
          ELSE session_state
    /\ app_pc' = "setup_galileo_session"
    /\ AppFrame

\* _setup_galileo_session: start_session, then the welcome message is
\* appended; an error is shown and the script run stopped (st.stop()).
SetupGalileoSession ==
    /\ app_pc = "setup_galileo_session"
    /\ \/ /\ session_state' = [session_state EXCEPT
                                  !.messages = Append(@, WelcomeEntry)]
          /\ app_pc' = "run"
       \/ /\ app_pc' = "stopped"
          /\ UNCHANGED session_state
    /\ AppFrame

\* run() up to process_user_input: the runner is created if the session has
\* none; without input the script run ends; with input the user's message is
\* appended.
Run ==
    /\ app_pc = "run"
    /\ \E user_input \in UserInputs :
          IF user_input = NoValue
          THEN /\ session_state' = [session_state EXCEPT !.runner = "JohnDeereAgentRunner"]
               /\ app_pc' = "waiting"
          ELSE /\ session_state' = [session_state EXCEPT
                     !.runner = "JohnDeereAgentRunner",
                     !.messages = Append(@, UserEntry(user_input))]
               /\ app_pc' = "generate"
    /\ AppFrame

\* _generate_and_display_response and st.rerun(): the response is appended,
\* or an error is shown and nothing appended; the script is run again.
GenerateAndRerun ==
    /\ app_pc = "generate"
    /\ \/ \E text \in Responses :
             session_state' = [session_state EXCEPT
                                  !.messages = Append(@, AssistantEntry(text))]
       \/ UNCHANGED session_state
    /\ app_pc' = "rerun"
    /\ AppFrame

AppNext ==
    \/ InitializeSessionState
    \/ SetupGalileoSession
    \/ Run
    \/ GenerateAndRerun

AppSpec == AppInit /\ [][AppNext]_vars

\* The positions of the welcome message in the chat history.
WelcomePositions ==
    {i \in 1..Len(session_state.messages) : session_state.messages[i] = WelcomeEntry}

\* C28: across any number of script reruns within one chat session the chat
\* history contains the welcome message at most once, and as its first entry.
C28_WelcomeOnceAndFirst ==
    app_pc # "no_session" => WelcomePositions \subseteq {1}

====
